---------------------------- MODULE Spec2Model ----------------------------
(***************************************************************************)
(* State-machine model of the bright-bite backend: the wallet ledger       *)
(* (app/api/endpoints/wallet.py) and the order lifecycle                   *)
(* (student.py, vendor.py, staff.py, rider.py).                            *)
(*                                                                         *)
(* Every HTTP handler is a request running in a slot.  A request advances  *)
(* by one database round-trip per step, so that two requests interleave    *)
(* exactly where the handlers await the table store.  Local computation    *)
(* between two round-trips belongs to the step of the round-trip that      *)
(* follows it.                                                             *)
(*                                                                         *)
(* Money is modelled in whole pesos (the code uses floats).                *)
(* The only database call that is allowed to raise is the UPDATE of        *)
(* wallets.balance, the call whose failure the handlers compensate for.    *)
(***************************************************************************)
EXTENDS Integers, Sequences, FiniteSets, TLC

(* ------------------------------ bounds -------------------------------- *)
\* concurrent wallet requests
NumReqs == 2
\* rows the transactions table may hold
MaxTx == 2
\* balance UPDATEs that may raise in one behaviour
MaxFaults == 1
\* distinct client idempotency keys
NumKeys == 1
\* rows the orders table may hold
MaxOrders == 1
\* reward points a student may be credited in one behaviour
MaxPoints == 4
\* rows the refunds table may hold
MaxRefunds == 1
\* refunds rows of the behaviours that dispute one order repeatedly
MaxRepeatRefunds == 2
\* rows of the vouchers table
NumVouchers == 2
\* websocket connections made in one behaviour
MaxSockets == 2

(* ------------------------- program constants -------------------------- *)
TOPUP_MIN == 50
TOPUP_MAX == 10000
SANDBOX_MIN == 1
SANDBOX_MAX == 100000
DEBIT_LIMIT == 50000

Users == {"u1"}
\* students: u1 places the orders, u2 is another student
Customers == {"u1"}
Students == {"u1", "u2"}
\* vendors: v1 receives the orders, v2 is another vendor
Restaurants == {"v1"}
Vendors == {"v1", "v2"}
\* table delivery_staff: staff member -> vendor
StaffVendor == [st1 |-> "v1", st2 |-> "v1", sx |-> "v2"]
Staff == DOMAIN StaffVendor
Riders == {"r1", "r2"}
OrderTotals == {250}
Slots == 1..NumReqs
Keys == 1..NumKeys
Providers == {"maya", "gcash"}

\* request inputs, chosen around the limits the handlers test
TopUpAmounts == {TOPUP_MIN - 1, TOPUP_MIN, TOPUP_MAX, TOPUP_MAX + 1}
TopUpMethods == {"gcash", "card"}
SandboxAmounts == {SANDBOX_MIN - 1, 2 * TOPUP_MIN, SANDBOX_MAX + 1}
DebitAmounts == {0, TOPUP_MIN, DEBIT_LIMIT + 1}
RefundAmounts == {0, TOPUP_MIN - 1}
\* event amount of a webhook payload (0: absent)
WebhookAmounts == {0, TOPUP_MIN}
\* HMAC-SHA256 as an ideal MAC: the digest names the key and the body it was
\* computed over
HmacHex(secret, body) == <<"hmac", secret, body>>
\* a signature header: absent, or its value as a sequence of tokens
NoSig == [present |-> FALSE, value |-> <<>>]
Sig(prefixed, secret, body) ==
    [present |-> TRUE,
     value |-> IF prefixed THEN <<"sha256=">> \o HmacHex(secret, body)
               ELSE HmacHex(secret, body)]
\* signature headers a caller may send: none, the provider's, a "sha256="
\* prefixed one, one under a key of the caller's own, one under the empty
\* key, and a genuine one taken from another body
Signatures ==
    {NoSig, Sig(FALSE, "maya-secret", "body"), Sig(TRUE, "gcash-secret", "body"),
     Sig(FALSE, "attacker", "body"), Sig(FALSE, "", "body"),
     Sig(FALSE, "maya-secret", "other-body")}
\* environments the process may run in
SecretConfigs ==
    {[maya |-> "maya-secret", gcash |-> ""], [maya |-> "", gcash |-> "gcash-secret"]}
\* status field of a webhook payload
WebhookStatuses == {"paid", "failed", "processing"}
paid_statuses == {"paid", "success", "succeeded", "completed"}
failed_statuses == {"failed", "cancelled", "canceled", "expired"}

VARIABLES
    wallets,     \* table wallets: sequence of rows, id = position
    txs,         \* table transactions: sequence of rows, reference = position
    rq,          \* rq[s]: the request running in slot s
    secrets,     \* MAYA_WEBHOOK_SECRET / GCASH_WEBHOOK_SECRET of the process
    faults,      \* balance UPDATEs that have raised so far
    resp,        \* the response the step just taken sent, if it sent one
    firstResp,   \* history: first successful response per (operation, key)
    initial,     \* history: balance of wallet 1 and rows of transactions at the start
    orders,      \* table orders: sequence of rows, id = position
    oq,          \* oq[s]: the order request running in slot s
    points,      \* student_profiles.points per student
    refunds,     \* table refunds: sequence of rows
    _vendor_connections,    \* realtime.py: vendor id -> sockets registered
    _student_connections,   \* realtime.py: user id -> sockets registered
    _staff_connections,     \* realtime.py: staff user id -> sockets registered
    socks,       \* the websockets: query parameters, state, payloads received
    bc,          \* the broadcast_order_event call in progress, if any
    menu_items,  \* table menu_items: sequence of rows, id = position
    overlapped,  \* history: two toggle_menu_promotion calls have run at once
    vouchers,    \* table vouchers: sequence of rows, id = position
    today        \* date.today() of the process

ovars == <<orders, oq, points>>
wvars == <<wallets, txs, rq, secrets, faults, firstResp, initial>>
nvars == <<_vendor_connections, _student_connections, _staff_connections, socks, bc>>
mvars == <<menu_items, overlapped, vouchers, today>>
xvars == <<refunds, nvars, mvars>>
vars ==
    <<wallets, txs, rq, resp, secrets, faults, firstResp, initial, orders, oq, points,
      refunds, _vendor_connections, _student_connections, _staff_connections, socks, bc,
      menu_items, overlapped, vouchers, today>>

NoId == [kind |-> "none", n |-> 0]
UuidId(n) == [kind |-> "uuid", n |-> n]
KeyId(k) == [kind |-> "key", n |-> k]

\* a request: its inputs (op .. evamt), the handler's locals (wid, wbal),
\* its response (code, err, rtx, ramt) and what it has done so far
IdleReq ==
    [op |-> "idle", pc |-> "idle", user |-> "", amount |-> 0, key |-> 0,
     tid |-> NoId, wid |-> 0, wbal |-> 0,
     provider |-> "", sig |-> NoSig, wstatus |-> "", ref |-> 0, evamt |-> 0,
     code |-> 0, err |-> "", rtx |-> NoId, ramt |-> 0, replay |-> FALSE,
     inserted |-> FALSE, wrote |-> FALSE, flipped |-> FALSE]

NoResp == [id |-> NoId, amount |-> 0]

\* an order request: its inputs (op .. target), the row a refusing handler
\* read (seen, seenStaff), the points it read (pts), what its update will
\* also set (claim) and its response.  A request that goes on to its update
\* keeps of the row it read only what the update uses.
IdleOrd ==
    [op |-> "idle", pc |-> "idle", actor |-> "", order |-> 0, target |-> "",
     seen |-> "", seenStaff |-> "", claim |-> "", pts |-> 0, code |-> 0, err |-> ""]

\* a websocket of /ws/orders: its query parameters, whether it is connected
\* ("new": not yet; "open"; "gone": the client has left and send_text raises;
\* "closed": orders_ws has returned) and how often it received the payload of
\* the current broadcast
Sockets == 1..MaxSockets
NoSocket ==
    [vendorId |-> "", userId |-> "", staffUserId |-> "", state |-> "new", got |-> 0]

\* no broadcast_order_event call is running
IdleBroadcast ==
    [phase |-> "idle", vendor_id |-> "", user_id |-> "", staff_user_id |-> "",
     pending |-> {}, listed |-> FALSE]

\* a process that no websocket has connected to yet
RealtimeIdle ==
    /\ _vendor_connections = <<>>
    /\ _student_connections = <<>>
    /\ _staff_connections = <<>>
    /\ socks = [w \in Sockets |-> NoSocket]
    /\ bc = IdleBroadcast

\* the menu: two items of vendor v1 and one of vendor v2, none promoted
MenuVendors == <<"v1", "v1", "v2">>
NoPromotion ==
    [i \in 1..Len(MenuVendors) |-> [vendor_id |-> MenuVendors[i], is_promoted |-> FALSE]]

\* date.fromisoformat on the dates the vouchers carry: year, month, day
fromisoformat ==
    [d \in {"2026-10-31", "2026-11-01", "2026-11-02"} |->
        CASE d = "2026-10-31" -> <<2026, 10, 31>>
          [] d = "2026-11-01" -> <<2026, 11, 1>>
          [] d = "2026-11-02" -> <<2026, 11, 2>>]
IsoDates == DOMAIN fromisoformat

\* date.__lt__
DateBefore(a, b) ==
    \/ a[1] < b[1]
    \/ a[1] = b[1] /\ a[2] < b[2]
    \/ a[1] = b[1] /\ a[2] = b[2] /\ a[3] < b[3]

\* no promotion and no voucher; the day is 1 November 2026
MenuIdle ==
    /\ menu_items = NoPromotion
    /\ overlapped = FALSE
    /\ vouchers = <<>>
    /\ today = fromisoformat["2026-11-01"]

(* ----------------------------- helpers -------------------------------- *)
\* ids of the wallet rows of a user, oldest first (order by created_at)
WalletsOf(u) == {i \in 1..Len(wallets) : wallets[i].user = u}

Min(S) == CHOOSE x \in S : \A y \in S : x <= y

\* rows of transactions whose id is `id`
TxById(id) == {i \in 1..Len(txs) : txs[i].id = id}

\* requests that will still insert a transaction row
WillInsert(r) ==
    \/ r.op = "top_up" /\ r.pc \in {"ew_sel", "ew_ins", "ew_sel2", "tu_lookup", "tu_insert"}
    \/ r.op \in {"sandbox", "debit", "refund"}
          /\ r.pc \in {"ew_sel", "ew_ins", "ew_sel2", "sb_insert", "db_insert", "rf_insert"}

\* a new inserting request is admitted only while the requests of the
\* behaviour insert at most MaxTx rows
CanInsertTx ==
    Len(txs) - initial.rows + Cardinality({s \in Slots : WillInsert(rq[s])}) < MaxTx

\* the handler returns (or raises) with this status code
Done(r, code, err) == [r EXCEPT !.pc = "done", !.code = code, !.err = err]

\* slot s moves on to nr; a request that is done leaves the slot, and its
\* response (with the request it answers) is visible in resp for one step
Step(s, nr) ==
    IF nr.pc = "done"
    THEN rq' = [rq EXCEPT ![s] = IdleReq] /\ resp' = nr
    ELSE rq' = [rq EXCEPT ![s] = nr] /\ resp' = IdleReq

\* a slot takes a request when it runs none; slots are taken lowest first
Free(s) == rq[s].pc = "idle"
CanStart(s) == Free(s) /\ \A t \in Slots : t < s => ~Free(t)

\* where a request goes once _ensure_wallet has returned
AfterEnsure(r) ==
    CASE r.op = "top_up" -> IF r.key # 0 THEN "tu_lookup" ELSE "tu_insert"
      [] r.op = "confirm" -> "cf_fetch"
      [] r.op = "sandbox" -> "sb_insert"
      [] r.op = "debit" -> "db_insert"
      [] r.op = "refund" -> "rf_insert"

(* --------------------------- _ensure_wallet --------------------------- *)
\* the row _ensure_wallet returns once a row of the user exists
WithWallet(r) ==
    LET w == Min(WalletsOf(r.user)) IN
    [r EXCEPT !.wid = w, !.wbal = wallets[w].balance, !.pc = AfterEnsure(r)]

\* first select of _ensure_wallet
EnsureWalletSelect(s) ==
    /\ rq[s].pc = "ew_sel"
    /\ Step(s, IF WalletsOf(rq[s].user) # {}
                                THEN WithWallet(rq[s])
                                ELSE [rq[s] EXCEPT !.pc = "ew_ins"])
    /\ UNCHANGED <<wallets, txs, secrets, faults, firstResp, initial, ovars, xvars>>

\* no row found: insert a wallet with balance 0
EnsureWalletInsert(s) ==
    /\ rq[s].pc = "ew_ins"
    /\ wallets' = Append(wallets, [user |-> rq[s].user, balance |-> 0])
    /\ Step(s, [rq[s] EXCEPT !.pc = "ew_sel2"])
    /\ UNCHANGED <<txs, secrets, faults, firstResp, initial, ovars, xvars>>

\* select again after the insert
EnsureWalletReselect(s) ==
    /\ rq[s].pc = "ew_sel2"
    /\ Step(s, WithWallet(rq[s]))
    /\ UNCHANGED <<wallets, txs, secrets, faults, firstResp, initial, ovars, xvars>>

(* ------------------------------ top_up -------------------------------- *)
\* the first successful response for (op, key) is remembered
Remember(r) ==
    IF r.pc = "done" /\ r.code = 200 /\ r.key # 0 /\ r.op \in {"top_up", "debit"}
          /\ firstResp[r.op][r.key] = NoResp
    THEN [firstResp EXCEPT ![r.op][r.key] = [id |-> r.rtx, amount |-> r.ramt]]
    ELSE firstResp

\* variant: the ceiling is not tested
TopUpAmountOk_NoCeiling(amount) == ~(amount < TOPUP_MIN)

TopUpAmountOk(amount) == ~(amount < TOPUP_MIN \/ amount > TOPUP_MAX)

allowed_methods == {"gcash", "maya"}

\* request arrives; amount and payment method are validated before any query
TopUpStart(s, amounts, keys) ==
    /\ CanStart(s)
    /\ \E u \in Users, a \in amounts :
         LET r == [IdleReq EXCEPT !.op = "top_up", !.user = u, !.amount = a] IN
         IF ~TopUpAmountOk(a)
         THEN Step(s, Done(r, 400, "amount_range"))
         ELSE \E m \in TopUpMethods :
              IF m \notin allowed_methods
              THEN Step(s, Done(r, 400, "payment_method"))
              ELSE \E k \in keys :
                   /\ CanInsertTx
                   /\ Step(s,
                         [r EXCEPT !.pc = "ew_sel", !.key = k,
                            !.replay = (k # 0 /\ firstResp["top_up"][k] # NoResp
                                          /\ firstResp["top_up"][k].amount = a)])
    /\ UNCHANGED <<wallets, txs, secrets, faults, firstResp, initial, ovars, xvars>>

\* idempotency lookup: a transaction whose id is the key, in this wallet
TopUpLookup(s) ==
    /\ rq[s].pc = "tu_lookup"
    /\ LET r == rq[s]
           rows == {i \in TxById(KeyId(r.key)) : txs[i].wallet_id = r.wid}
           nr == IF rows # {}
                 THEN [Done(r, 200, "") EXCEPT !.rtx = txs[Min(rows)].id,
                                               !.ramt = txs[Min(rows)].amount]
                 ELSE [r EXCEPT !.pc = "tu_insert"]
       IN  /\ Step(s, nr)
           /\ firstResp' = Remember(nr)
    /\ UNCHANGED <<wallets, txs, secrets, faults, initial, ovars, xvars>>

\* insert the pending transaction; a duplicate id makes the insert raise,
\* which the handler swallows
TopUpInsert(s) ==
    /\ rq[s].pc = "tu_insert"
    /\ LET r == rq[s]
           tx_id == IF r.key # 0 THEN KeyId(r.key) ELSE UuidId(Len(txs) + 1)
           dup == TxById(tx_id) # {}
           tx_row == [id |-> tx_id, wallet_id |-> r.wid, type |-> "credit",
                      amount |-> r.amount, status |-> "pending", user |-> r.user]
           nr == [Done(r, 200, "") EXCEPT !.rtx = tx_id, !.ramt = r.amount,
                                          !.inserted = ~dup]
       IN  /\ txs' = IF dup THEN txs ELSE Append(txs, tx_row)
           /\ Step(s, nr)
           /\ firstResp' = Remember(nr)
    /\ UNCHANGED <<wallets, secrets, faults, initial, ovars, xvars>>

(* ------------------------- confirm_top_up ----------------------------- *)
\* ids a caller may name in the payload
ConfirmIds == {NoId} \cup {UuidId(n) : n \in 1..MaxTx} \cup {KeyId(k) : k \in Keys}

ConfirmStart(s) ==
    /\ CanStart(s)
    /\ \E u \in Users, id \in ConfirmIds :
         LET r == [IdleReq EXCEPT !.op = "confirm", !.user = u, !.tid = id]
         IN  Step(s, IF id = NoId
                                     THEN Done(r, 400, "no_id")
                                     ELSE [r EXCEPT !.pc = "ew_sel"])
    /\ UNCHANGED <<wallets, txs, secrets, faults, firstResp, initial, ovars, xvars>>

\* fetch the transaction by id within the caller's wallet, then the checks
\* that precede _complete_pending_credit
ConfirmFetch(s) ==
    /\ rq[s].pc = "cf_fetch"
    /\ LET r == rq[s]
           rows == {i \in TxById(r.tid) : txs[i].wallet_id = r.wid}
           tx == txs[Min(rows)]
           found == [r EXCEPT !.rtx = tx.id, !.ramt = tx.amount, !.amount = tx.amount]
       IN  Step(s,
                CASE rows = {} -> Done(r, 404, "not_found")
                  [] rows # {} /\ tx.user # r.user -> Done(r, 403, "forbidden")
                  [] rows # {} /\ tx.user = r.user /\ tx.type # "credit" ->
                        Done(r, 400, "not_credit")
                  [] rows # {} /\ tx.user = r.user /\ tx.type = "credit"
                        /\ tx.status = "completed" -> Done(found, 200, "")
                  [] rows # {} /\ tx.user = r.user /\ tx.type = "credit"
                        /\ tx.status \notin {"completed", "pending"} ->
                        Done(r, 400, "not_pending")
                  [] rows # {} /\ tx.user = r.user /\ tx.type = "credit"
                        /\ tx.status = "pending" /\ tx.amount <= 0 ->
                        Done(r, 400, "bad_amount")
                  [] OTHER -> [found EXCEPT !.pc = "cp_flip"])
    /\ UNCHANGED <<wallets, txs, secrets, faults, firstResp, initial, ovars, xvars>>

(* ---------------------- _verify_signature, webhooks ------------------- *)
\* the header value after strip() and removal of a "sha256=" prefix
StripPrefix(value) ==
    IF Len(value) > 0 /\ value[1] = "sha256=" THEN Tail(value) ELSE value

\* variant: an unset secret is used as the (empty) HMAC key
_verify_signature_EmptyKey(secret, raw_body, provided) ==
    IF ~provided.present THEN FALSE
    ELSE HmacHex(secret, raw_body) = StripPrefix(provided.value)

_verify_signature(secret, raw_body, provided) ==
    IF secret = "" THEN FALSE
    ELSE IF ~provided.present THEN FALSE
    ELSE HmacHex(secret, raw_body) = StripPrefix(provided.value)

\* maya_webhook / gcash_webhook up to the signature check: nothing is
\* queried before it
WebhookReceive(s, statuses) ==
    /\ CanStart(s)
    /\ \E p \in Providers, sg \in Signatures :
         LET r == [IdleReq EXCEPT !.op = "webhook", !.provider = p, !.sig = sg] IN
         IF ~_verify_signature(secrets[p], "body", sg)
         THEN Step(s, Done(r, 401, "invalid_signature"))
         ELSE \E ref \in 0..MaxTx :
              IF ref = 0
              THEN Step(s, Done(r, 400, "missing_reference"))
              ELSE \E st \in statuses :
                   Step(s, [r EXCEPT !.pc = "wh_lookup", !.ref = ref, !.wstatus = st])
    /\ UNCHANGED <<wallets, txs, secrets, faults, firstResp, initial, ovars, xvars>>

\* lookup by transaction_reference.  The amount comparison raises an
\* HTTPException inside `try: ... except Exception: pass`, so a mismatch has
\* no effect on the control flow.
WebhookLookup(s) ==
    /\ rq[s].pc = "wh_lookup"
    /\ \E ev \in WebhookAmounts :
       LET r == rq[s]
           found == r.ref <= Len(txs)
           tx == txs[r.ref]
           fr == [r EXCEPT !.tid = tx.id, !.wid = tx.wallet_id, !.amount = tx.amount,
                           !.evamt = ev]
       IN  Step(s,
                IF ~found THEN Done(r, 404, "not_found")
                ELSE IF r.wstatus \in paid_statuses THEN [fr EXCEPT !.pc = "cp_flip"]
                ELSE IF r.wstatus \in failed_statuses THEN [fr EXCEPT !.pc = "wh_fail"]
                ELSE Done(fr, 200, "unknown_status"))
    /\ UNCHANGED <<wallets, txs, secrets, faults, firstResp, initial, ovars, xvars>>

\* failed status: update ... set status = failed where id = .. and status = pending
WebhookFail(s) ==
    /\ rq[s].pc = "wh_fail"
    /\ LET r == rq[s] IN
       /\ txs' = [i \in 1..Len(txs) |->
                    IF txs[i].id = r.tid /\ txs[i].status = "pending"
                    THEN [txs[i] EXCEPT !.status = "failed"] ELSE txs[i]]
       /\ Step(s, Done(r, 200, "failed"))
    /\ UNCHANGED <<wallets, secrets, faults, firstResp, initial, ovars, xvars>>

(* ---------------------- _complete_pending_credit ---------------------- *)
\* variant: the flip is not conditional on the status
FlipFilter_AnyStatus(r, i) ==
    txs[i].id = r.tid /\ txs[i].wallet_id = r.wid

\* rows the status flip's filter selects
FlipFilter(r, i) ==
    txs[i].id = r.tid /\ txs[i].wallet_id = r.wid /\ txs[i].status = "pending"

\* update ... set status = completed where the filter holds
CompleteFlip(s) ==
    /\ rq[s].pc = "cp_flip"
    /\ LET r == rq[s]
           updated_rows == {i \in 1..Len(txs) : FlipFilter(r, i)}
       IN  /\ txs' = [i \in 1..Len(txs) |->
                        IF i \in updated_rows
                        THEN [txs[i] EXCEPT !.status = "completed"] ELSE txs[i]]
           /\ Step(s,
                       IF updated_rows = {}
                       THEN [r EXCEPT !.pc = "cp_noop"]
                       ELSE [r EXCEPT !.pc = "cp_sel", !.flipped = TRUE])
    /\ UNCHANGED <<wallets, secrets, faults, firstResp, initial, ovars, xvars>>

\* nothing flipped: read the wallet and return it without crediting
CompleteNoop(s) ==
    /\ rq[s].pc = "cp_noop"
    /\ LET r == rq[s] IN
       Step(s, [Done(r, 200, "") EXCEPT !.wbal = wallets[r.wid].balance])
    /\ UNCHANGED <<wallets, txs, secrets, faults, firstResp, initial, ovars, xvars>>

\* the flipping request reads the wallet row
CompleteSelect(s) ==
    /\ rq[s].pc = "cp_sel"
    /\ LET r == rq[s] IN
       Step(s, [r EXCEPT !.wbal = wallets[r.wid].balance, !.pc = "cp_upd"])
    /\ UNCHANGED <<wallets, txs, secrets, faults, firstResp, initial, ovars, xvars>>

\* the balance a credit writes
CreditBalance(read_balance, amount) == read_balance + amount

\* the balance a debit writes
DebitBalance(read_balance, amount) == read_balance - amount

\* ... and writes balance = what it read + amount; the UPDATE may raise
CompleteUpdate(s) ==
    /\ rq[s].pc = "cp_upd"
    /\ LET r == rq[s] IN
       \/ /\ wallets' = [wallets EXCEPT ![r.wid].balance = CreditBalance(r.wbal, r.amount)]
          /\ Step(s, [Done(r, 200, "") EXCEPT !.wrote = TRUE])
          /\ UNCHANGED faults
       \/ /\ faults < MaxFaults
          /\ faults' = faults + 1
          /\ Step(s, [r EXCEPT !.pc = "cp_revert"])
          /\ UNCHANGED wallets
    /\ UNCHANGED <<txs, secrets, firstResp, initial, ovars, xvars>>

\* the UPDATE raised: set the transaction back to pending, answer 500
CompleteRevert(s) ==
    /\ rq[s].pc = "cp_revert"
    /\ LET r == rq[s] IN
       /\ txs' = [i \in 1..Len(txs) |->
                    IF txs[i].id = r.tid THEN [txs[i] EXCEPT !.status = "pending"]
                    ELSE txs[i]]
       /\ Step(s, Done(r, 500, "balance_update_failed"))
    /\ UNCHANGED <<wallets, secrets, faults, firstResp, initial, ovars, xvars>>

(* --------------------------- sandbox_top_up --------------------------- *)
SANDBOX_MODE == TRUE
SANDBOX_PIN == "1234"
SandboxPins == {"1234", "0000"}

SandboxStart(s) ==
    /\ CanStart(s)
    /\ \E u \in Users, pin \in SandboxPins :
         LET r == [IdleReq EXCEPT !.op = "sandbox", !.user = u] IN
         IF ~SANDBOX_MODE
         THEN Step(s, Done(r, 403, "sandbox_disabled"))
         ELSE IF pin # SANDBOX_PIN
         THEN Step(s, Done(r, 403, "invalid_pin"))
         ELSE \E a \in SandboxAmounts :
              IF a < SANDBOX_MIN \/ a > SANDBOX_MAX
              THEN Step(s, Done([r EXCEPT !.amount = a], 400, "amount_range"))
              ELSE /\ CanInsertTx
                   /\ Step(s, [r EXCEPT !.amount = a, !.pc = "ew_sel"])
    /\ UNCHANGED <<wallets, txs, secrets, faults, firstResp, initial, ovars, xvars>>

\* a completed transaction row under a fresh uuid
CompletedRow(r, type) ==
    [id |-> UuidId(Len(txs) + 1), wallet_id |-> r.wid, type |-> type,
     amount |-> r.amount, status |-> "completed", user |-> r.user]

\* the request after its insert
Inserted(r, pc) ==
    [r EXCEPT !.pc = pc, !.inserted = TRUE, !.tid = UuidId(Len(txs) + 1),
              !.rtx = UuidId(Len(txs) + 1), !.ramt = r.amount]

SandboxInsert(s) ==
    /\ rq[s].pc = "sb_insert"
    /\ txs' = Append(txs, CompletedRow(rq[s], "credit"))
    /\ Step(s, Inserted(rq[s], "sb_upd"))
    /\ UNCHANGED <<wallets, secrets, faults, firstResp, initial, ovars, xvars>>

\* balance = the balance _ensure_wallet returned + amount; the UPDATE may raise
SandboxUpdate(s) ==
    /\ rq[s].pc = "sb_upd"
    /\ LET r == rq[s] IN
       \/ /\ wallets' = [wallets EXCEPT ![r.wid].balance = CreditBalance(r.wbal, r.amount)]
          /\ Step(s, [Done(r, 200, "") EXCEPT !.wrote = TRUE])
          /\ UNCHANGED faults
       \/ /\ faults < MaxFaults
          /\ faults' = faults + 1
          /\ Step(s, [r EXCEPT !.pc = "rollback"])
          /\ UNCHANGED wallets
    /\ UNCHANGED <<txs, secrets, firstResp, initial, ovars, xvars>>

\* "Rollback transaction" of sandbox_top_up, debit_wallet and refund_wallet:
\* the inserted row is set to failed, the answer is 500
Rollback(s) ==
    /\ rq[s].pc = "rollback"
    /\ LET r == rq[s] IN
       /\ txs' = [i \in 1..Len(txs) |->
                    IF txs[i].id = r.tid THEN [txs[i] EXCEPT !.status = "failed"]
                    ELSE txs[i]]
       /\ Step(s, Done(r, 500, "balance_update_failed"))
    /\ UNCHANGED <<wallets, secrets, faults, firstResp, initial, ovars, xvars>>

(* ----------------------------- debit_wallet --------------------------- *)
\* the idempotency key a client sends is in the request; debit_wallet never
\* reads it
DebitStart(s) ==
    /\ CanStart(s)
    /\ \E u \in Users, a \in DebitAmounts, k \in {0} \cup Keys :
         LET r == [IdleReq EXCEPT !.op = "debit", !.user = u, !.amount = a, !.key = k,
                                  !.replay = (k # 0 /\ firstResp["debit"][k] # NoResp
                                                /\ firstResp["debit"][k].amount = a)]
         IN  IF a <= 0
             THEN Step(s, Done(r, 400, "not_positive"))
             ELSE IF a > DEBIT_LIMIT
             THEN Step(s, Done(r, 400, "limit"))
             ELSE /\ CanInsertTx
                  /\ Step(s, [r EXCEPT !.pc = "ew_sel"])
    /\ UNCHANGED <<wallets, txs, secrets, faults, firstResp, initial, ovars, xvars>>

\* variant: only a negative balance is insufficient
InsufficientBalance_Negative(current_balance, amount) == current_balance < 0

\* the balance check of debit_wallet
InsufficientBalance(current_balance, amount) == current_balance < amount

\* balance check against the balance _ensure_wallet returned, then the insert
DebitInsert(s) ==
    /\ rq[s].pc = "db_insert"
    /\ LET r == rq[s] IN
       IF InsufficientBalance(r.wbal, r.amount)
       THEN /\ Step(s, Done(r, 400, "insufficient_balance"))
            /\ UNCHANGED txs
       ELSE /\ txs' = Append(txs, CompletedRow(r, "debit"))
            /\ Step(s, Inserted(r, "db_upd"))
    /\ UNCHANGED <<wallets, secrets, faults, firstResp, initial, ovars, xvars>>

\* balance = the balance read before the insert - amount; the UPDATE may raise
DebitUpdate(s) ==
    /\ rq[s].pc = "db_upd"
    /\ LET r == rq[s]
           nr == [Done(r, 200, "") EXCEPT !.wrote = TRUE]
       IN
       \/ /\ wallets' = [wallets EXCEPT ![r.wid].balance = DebitBalance(r.wbal, r.amount)]
          /\ Step(s, nr)
          /\ firstResp' = Remember(nr)
          /\ UNCHANGED faults
       \/ /\ faults < MaxFaults
          /\ faults' = faults + 1
          /\ Step(s, [r EXCEPT !.pc = "rollback"])
          /\ UNCHANGED <<wallets, firstResp>>
    /\ UNCHANGED <<txs, secrets, initial, ovars, xvars>>

(* ----------------------------- refund_wallet -------------------------- *)
RefundStart(s) ==
    /\ CanStart(s)
    /\ \E u \in Users, a \in RefundAmounts :
         LET r == [IdleReq EXCEPT !.op = "refund", !.user = u, !.amount = a]
         IN  IF a <= 0
             THEN Step(s, Done(r, 400, "not_positive"))
             ELSE /\ CanInsertTx
                  /\ Step(s, [r EXCEPT !.pc = "ew_sel"])
    /\ UNCHANGED <<wallets, txs, secrets, faults, firstResp, initial, ovars, xvars>>

RefundInsert(s) ==
    /\ rq[s].pc = "rf_insert"
    /\ txs' = Append(txs, CompletedRow(rq[s], "credit"))
    /\ Step(s, Inserted(rq[s], "rf_upd"))
    /\ UNCHANGED <<wallets, secrets, faults, firstResp, initial, ovars, xvars>>

RefundUpdate(s) ==
    /\ rq[s].pc = "rf_upd"
    /\ LET r == rq[s] IN
       \/ /\ wallets' = [wallets EXCEPT ![r.wid].balance = CreditBalance(r.wbal, r.amount)]
          /\ Step(s, [Done(r, 200, "") EXCEPT !.wrote = TRUE])
          /\ UNCHANGED faults
       \/ /\ faults < MaxFaults
          /\ faults' = faults + 1
          /\ Step(s, [r EXCEPT !.pc = "rollback"])
          /\ UNCHANGED wallets
    /\ UNCHANGED <<txs, secrets, firstResp, initial, ovars, xvars>>

(* --------------------------- wallet ledger ---------------------------- *)
EnsureWallet(s) ==
    \/ EnsureWalletSelect(s) \/ EnsureWalletInsert(s) \/ EnsureWalletReselect(s)

Confirm(s) == ConfirmStart(s) \/ ConfirmFetch(s)

CompletePendingCredit(s) ==
    \/ CompleteFlip(s) \/ CompleteNoop(s) \/ CompleteSelect(s)
    \/ CompleteUpdate(s) \/ CompleteRevert(s)

Sandbox(s) == SandboxStart(s) \/ SandboxInsert(s) \/ SandboxUpdate(s)

Debit(s) == DebitStart(s) \/ DebitInsert(s) \/ DebitUpdate(s)

Refund(s) == RefundStart(s) \/ RefundInsert(s) \/ RefundUpdate(s)

OrderIdle ==
    /\ orders = <<>>
    /\ oq = [s \in Slots |-> IdleOrd]
    /\ points = [u \in Students |-> 0]
    /\ refunds = <<>>
    /\ RealtimeIdle
    /\ MenuIdle

WalletInit ==
    /\ wallets = <<>>
    /\ txs = <<>>
    /\ rq = [s \in Slots |-> IdleReq]
    /\ resp = IdleReq
    /\ secrets \in SecretConfigs
    /\ faults = 0
    /\ firstResp = [o \in {"top_up", "debit"} |-> [k \in Keys |-> NoResp]]
    /\ initial = [balance |-> 0, rows |-> 0]
    /\ OrderIdle

\* top-ups requested, sandbox credits, debits and refunds
PaymentsNext ==
    \E s \in Slots :
        \/ EnsureWallet(s)
        \/ TopUpStart(s, TopUpAmounts, {0} \cup Keys) \/ TopUpLookup(s) \/ TopUpInsert(s)
        \/ Sandbox(s) \/ Debit(s) \/ Refund(s) \/ Rollback(s)

SpecPayments == WalletInit /\ [][PaymentsNext]_vars

\* top-ups requested and settled by confirm calls and provider webhooks
SettleNext ==
    \E s \in Slots :
        \/ EnsureWallet(s)
        \/ TopUpStart(s, {TOPUP_MIN}, {0}) \/ TopUpInsert(s)
        \/ Confirm(s)
        \/ WebhookReceive(s, WebhookStatuses) \/ WebhookLookup(s) \/ WebhookFail(s)
        \/ CompletePendingCredit(s)

SpecSettle == WalletInit /\ [][SettleNext]_vars

\* a wallet that earlier sandbox top-ups have funded, and the rows they left
Funded(n) ==
    /\ wallets = <<[user |-> "u1", balance |-> n * 2 * TOPUP_MIN]>>
    /\ initial = [balance |-> n * 2 * TOPUP_MIN, rows |-> n]

FundingRow(i) ==
    [id |-> UuidId(i), wallet_id |-> 1, type |-> "credit",
     amount |-> 2 * TOPUP_MIN, status |-> "completed", user |-> "u1"]

Quiet ==
    /\ rq = [s \in Slots |-> IdleReq]
    /\ resp = IdleReq
    /\ secrets \in SecretConfigs
    /\ firstResp = [o \in {"top_up", "debit"} |-> [k \in Keys |-> NoResp]]
    /\ OrderIdle

\* a wallet with a pending top-up, and confirm calls and paid webhooks for it;
\* every database call succeeds
RaceInit ==
    /\ \E n \in {0, 1}, a \in {TOPUP_MIN, TOPUP_MAX} :
         /\ Funded(n)
         /\ txs = [i \in 1..n |-> FundingRow(i)] \o
                  <<[id |-> UuidId(n + 1), wallet_id |-> 1, type |-> "credit",
                     amount |-> a, status |-> "pending", user |-> "u1"]>>
    /\ faults = MaxFaults
    /\ Quiet

RaceNext ==
    \E s \in Slots :
        \/ ConfirmStart(s) \/ EnsureWalletSelect(s) \/ ConfirmFetch(s)
        \/ WebhookReceive(s, {"paid"}) \/ WebhookLookup(s)
        \/ CompleteFlip(s) \/ CompleteNoop(s) \/ CompleteSelect(s) \/ CompleteUpdate(s)

SpecConfirmRace == RaceInit /\ [][RaceNext]_vars

\* a funded wallet, and top-ups and debits that carry idempotency keys;
\* every database call succeeds
ReplayInit ==
    /\ Funded(1)
    /\ txs = <<FundingRow(1)>>
    /\ faults = MaxFaults
    /\ Quiet

ReplayNext ==
    \E s \in Slots :
        \/ EnsureWalletSelect(s)
        \/ TopUpStart(s, {TOPUP_MIN, TOPUP_MAX}, Keys) \/ TopUpLookup(s) \/ TopUpInsert(s)
        \/ Debit(s)

SpecReplay == ReplayInit /\ [][ReplayNext]_vars

(* --------------------------- order lifecycle -------------------------- *)
\* Status strings reach the handlers already trimmed and in the letter case
\* the handler converts them to.

\* student.py: the statuses of the orders table
ORDER_STATUS ==
    {"PENDING_CONFIRMATION", "REJECTED", "CONFIRMED", "PAYMENT_PROCESSING",
     "PREPARING", "READY_FOR_PICKUP", "ON_THE_WAY", "ARRIVING_SOON", "DELIVERED",
     "COMPLETED", "RATING_PENDING"}

\* vendor.py: UI status -> stored status
UI_TO_DB_STATUS ==
    [pending |-> "PENDING_CONFIRMATION", preparing |-> "PREPARING",
     ready |-> "READY_FOR_PICKUP", completed |-> "COMPLETED", cancelled |-> "REJECTED"]

\* staff.py: stored status -> statuses delivery staff may set next
VALID_STATUS_TRANSITIONS ==
    [PENDING_CONFIRMATION |-> {"ON_THE_WAY"}, CONFIRMED |-> {"ON_THE_WAY"},
     PREPARING |-> {"ON_THE_WAY"}, READY_FOR_PICKUP |-> {"ON_THE_WAY"},
     ON_THE_WAY |-> {"DELIVERED"}]

\* rider.py update_status: UI status -> stored status, and the statuses it stores
ui_to_db ==
    [PENDING_PICKUP |-> "READY_FOR_PICKUP", PICKED_UP |-> "ON_THE_WAY",
     DELIVERING |-> "ON_THE_WAY", COMPLETED |-> "DELIVERED"]

allowed_db_statuses ==
    {"PENDING", "CONFIRMED", "PREPARING", "READY_FOR_PICKUP", "ON_THE_WAY",
     "ARRIVING_SOON", "DELIVERED", "COMPLETED", "CANCELLED"}

\* status strings the callers send
VendorInputs == {"pending", "preparing", "ready", "completed", "cancelled", "delivered"}
StaffInputs == {"picked-up", "delivered", "ready"}
RiderInputs == {"PICKED_UP", "COMPLETED", "CANCELLED", "REJECTED"}

\* order ids a caller may name; an id beyond the table names no row
OrderIds == 1..MaxOrders

ODone(r, code, err) == [r EXCEPT !.pc = "done", !.code = code, !.err = err]

\* as Step, for the order requests
OStep(s, nr) ==
    IF nr.pc = "done"
    THEN oq' = [oq EXCEPT ![s] = IdleOrd] /\ resp' = nr
    ELSE oq' = [oq EXCEPT ![s] = nr] /\ resp' = IdleOrd

OFree(s) == oq[s].pc = "idle"
OCanStart(s) == OFree(s) /\ \A t \in Slots : t < s => ~OFree(t)

\* student create_order: values tried for orders.payment_method, in order
wallet_candidates == <<"WALLET", "E_WALLET", "EWALLET", "PLATFORM_WALLET", "ONLINE_WALLET">>
cash_candidates == <<"CASH", "CASH_ON_PICKUP", "COP">>

\* payment methods create_order accepts; any other counts as cash
payment_methods == {"cash", "wallet", "card", "paypal", "gcash", "maya"}

\* str.upper() and str.lower() on the payment methods
Upper ==
    [cash |-> "CASH", wallet |-> "WALLET", card |-> "CARD", paypal |-> "PAYPAL",
     gcash |-> "GCASH", maya |-> "MAYA"]
Lower(pm) ==
    IF \E m \in DOMAIN Upper : Upper[m] = pm
    THEN CHOOSE m \in DOMAIN Upper : Upper[m] = pm
    ELSE IF pm = "E_WALLET" THEN "e_wallet"
    ELSE IF pm = "CASH_ON_PICKUP" THEN "cash_on_pickup"
    ELSE pm

candidates(payment_method) ==
    IF payment_method = "wallet" THEN wallet_candidates
    ELSE IF payment_method = "cash" THEN cash_candidates
    ELSE <<Upper[payment_method]>>

\* the first candidate the check constraint of orders.payment_method lets in
\* ("" when it lets none in)
FirstAccepted(cands, check) ==
    IF \E i \in 1..Len(cands) : cands[i] \in check
    THEN cands[Min({i \in 1..Len(cands) : cands[i] \in check})]
    ELSE ""

\* the items of an order as create_order stores them
OrderItems ==
    <<[item_name |-> "rice", quantity |-> 1, price |-> 60],
      [item_name |-> "adobo", quantity |-> 2, price |-> 90]>>

\* student create_order: the insert is tried with each candidate value of
\* payment_method until the table's check constraint lets one in; the order
\* starts in PENDING_CONFIRMATION; no wallet table is read or written.  The
\* constraint belongs to the database: each call meets one of `checks`.
CreateOrder(s, totals, methods, checks) ==
    /\ OCanStart(s)
    /\ Len(orders) < MaxOrders
    /\ \E u \in Customers, v \in Restaurants, t \in totals, m \in methods,
          check \in checks :
         LET payment_method == IF m \in payment_methods THEN m ELSE "cash"
             cand == FirstAccepted(candidates(payment_method), check)
             r == [IdleOrd EXCEPT !.op = "create_order", !.actor = u]
         IN  IF cand = ""
             THEN /\ OStep(s, ODone(r, 500, "candidates_exhausted"))
                  /\ UNCHANGED orders
             ELSE /\ orders' = Append(orders,
                        [status |-> "PENDING_CONFIRMATION", user_id |-> u,
                         restaurant_id |-> v, assigned_staff_id |-> "", rider_id |-> "",
                         total |-> t, payment_method |-> cand, items |-> OrderItems])
                  /\ OStep(s, ODone([r EXCEPT !.order = Len(orders) + 1], 200, ""))
    /\ UNCHANGED <<points, wvars, xvars>>

\* student cancel_order: update ... set status = REJECTED where id = .. and
\* user_id = ..; no row updated: 404
CancelOrder(s) ==
    /\ OCanStart(s)
    /\ \E u \in Students, o \in OrderIds :
         LET r == [IdleOrd EXCEPT !.op = "cancel_order", !.actor = u, !.order = o,
                                  !.target = "REJECTED"]
             data == o <= Len(orders) /\ orders[o].user_id = u
         IN  IF data
             THEN /\ orders' = [orders EXCEPT ![o].status = "REJECTED"]
                  /\ OStep(s, ODone(r, 200, ""))
             ELSE /\ OStep(s, ODone(r, 404, "not_found"))
                  /\ UNCHANGED orders
    /\ UNCHANGED <<points, wvars, xvars>>

\* variant: COMPLETED is not among the statuses kept for delivery staff
DeliveryLocked_NotCompleted(row, target_db) ==
    row.assigned_staff_id # "" /\ target_db \in {"ON_THE_WAY", "DELIVERED"}

\* vendor update_order_status: a staff-assigned order is not moved by the
\* vendor to a logistics status
DeliveryLocked(row, target_db) ==
    row.assigned_staff_id # "" /\ target_db \in {"ON_THE_WAY", "DELIVERED", "COMPLETED"}

\* vendor update_order_status up to its fetch of the order
VendorStatusFetch(s) ==
    /\ OCanStart(s)
    /\ \E incoming \in VendorInputs, o \in OrderIds :
         LET r == [IdleOrd EXCEPT !.op = "update_order_status", !.order = o] IN
         IF incoming \notin DOMAIN UI_TO_DB_STATUS
         THEN OStep(s, ODone(r, 400, "invalid_status"))
         ELSE IF o > Len(orders)
         THEN OStep(s, ODone(r, 404, "not_found"))
         ELSE LET row == orders[o]
                  target_db == UI_TO_DB_STATUS[incoming]
                  fr == [r EXCEPT !.target = target_db, !.seen = row.status,
                                  !.seenStaff = row.assigned_staff_id]
              IN  OStep(s,
                        IF row.status = target_db THEN ODone(fr, 200, "unchanged")
                        ELSE IF DeliveryLocked(row, target_db)
                        THEN ODone(fr, 403, "delivery_staff_only")
                        ELSE [r EXCEPT !.pc = "vs_update", !.target = target_db])
    /\ UNCHANGED <<orders, points, wvars, xvars>>

\* ... and its update by id
VendorStatusUpdate(s) ==
    /\ oq[s].pc = "vs_update"
    /\ LET r == oq[s] IN
       /\ orders' = [orders EXCEPT ![r.order].status = r.target]
       /\ OStep(s, ODone(r, 200, ""))
    /\ UNCHANGED <<points, wvars, xvars>>

\* vendor assign_order_to_staff: the order must be the vendor's, the staff
\* member one of the vendor's
AssignFetch(s) ==
    /\ OCanStart(s)
    /\ \E v \in Vendors, o \in OrderIds, st \in Staff :
         LET r == [IdleOrd EXCEPT !.op = "assign_order_to_staff", !.actor = v,
                                  !.order = o] IN
         OStep(s,
               IF o > Len(orders) THEN ODone(r, 404, "not_found")
               ELSE IF orders[o].restaurant_id # v THEN ODone(r, 403, "not_owner")
               ELSE IF StaffVendor[st] # v THEN ODone(r, 404, "staff_not_found")
               ELSE [r EXCEPT !.pc = "as_update", !.claim = st])
    /\ UNCHANGED <<orders, points, wvars, xvars>>

AssignUpdate(s) ==
    /\ oq[s].pc = "as_update"
    /\ LET r == oq[s] IN
       /\ orders' = [orders EXCEPT ![r.order].assigned_staff_id = r.claim]
       /\ OStep(s, ODone(r, 200, ""))
    /\ UNCHANGED <<points, wvars, xvars>>

\* staff update_delivery_status: points for a delivered order
reward_points(total_amt) == IF total_amt > 0 THEN total_amt \div 100 ELSE 0

\* 'delivered' requests in flight
Delivering ==
    {s \in Slots : oq[s].op = "update_delivery_status" /\ oq[s].target = "DELIVERED"}

\* a 'delivered' request is admitted only while the points it may award keep
\* the student's balance within MaxPoints
CanAward(row) ==
    points[row.user_id] + reward_points(row.total) * (1 + Cardinality(Delivering))
        <= MaxPoints

\* staff update_delivery_status up to its fetch of the order: the staff
\* member's vendor, the status mapping and the transition table are checked
StaffFetch(s) ==
    /\ OCanStart(s)
    /\ \E a \in Staff, o \in OrderIds, incoming \in StaffInputs :
         LET r == [IdleOrd EXCEPT !.op = "update_delivery_status", !.actor = a,
                                  !.order = o] IN
         IF o > Len(orders)
         THEN OStep(s, ODone(r, 404, "not_found"))
         ELSE IF orders[o].restaurant_id # StaffVendor[a]
         THEN OStep(s, ODone(r, 403, "not_your_vendor"))
         ELSE IF incoming \notin {"picked-up", "delivered"}
         THEN OStep(s, ODone(r, 400, "invalid_status"))
         ELSE LET order == orders[o]
                  current_status == order.status
                  new_db_status == IF incoming = "picked-up" THEN "ON_THE_WAY"
                                   ELSE "DELIVERED"
                  allowed_next == IF current_status \in DOMAIN VALID_STATUS_TRANSITIONS
                                  THEN VALID_STATUS_TRANSITIONS[current_status]
                                  ELSE {}
                  fr == [r EXCEPT !.target = new_db_status, !.seen = current_status,
                                  !.seenStaff = order.assigned_staff_id]
              IN  IF new_db_status \notin allowed_next
                  THEN OStep(s, ODone(fr, 400, "invalid_transition"))
                  ELSE /\ new_db_status = "DELIVERED" => CanAward(order)
                       /\ OStep(s, [r EXCEPT !.pc = "sd_update",
                                      !.target = new_db_status,
                                      !.claim = IF new_db_status = "ON_THE_WAY"
                                                   /\ order.assigned_staff_id = ""
                                                THEN a ELSE ""])
    /\ UNCHANGED <<orders, points, wvars, xvars>>

\* ... its update by id, which also claims an unassigned order on pick-up
StaffUpdate(s) ==
    /\ oq[s].pc = "sd_update"
    /\ LET r == oq[s] IN
       /\ orders' = [orders EXCEPT ![r.order].status = r.target,
                                   ![r.order].assigned_staff_id =
                                        IF r.claim # "" THEN r.claim ELSE @]
       /\ OStep(s, IF r.target = "DELIVERED" THEN [r EXCEPT !.pc = "sd_points"]
                   ELSE ODone(r, 200, ""))
    /\ UNCHANGED <<points, wvars, xvars>>

\* ... on DELIVERED: read the order's total and the student's points
StaffPointsRead(s) ==
    /\ oq[s].pc = "sd_points"
    /\ LET r == oq[s]
           order == orders[r.order]
       IN  OStep(s, IF reward_points(order.total) > 0
                    THEN [r EXCEPT !.pts = points[order.user_id], !.pc = "sd_award"]
                    ELSE ODone(r, 200, ""))
    /\ UNCHANGED <<orders, points, wvars, xvars>>

\* ... and write points = what it read + the reward
StaffPointsWrite(s) ==
    /\ oq[s].pc = "sd_award"
    /\ LET r == oq[s]
           order == orders[r.order]
       IN  /\ points' = [points EXCEPT ![order.user_id] =
                                           r.pts + reward_points(order.total)]
           /\ OStep(s, ODone(r, 200, ""))
    /\ UNCHANGED <<orders, wvars, xvars>>

\* rider update_status up to its fetch of the order
RiderStatusFetch(s) ==
    /\ OCanStart(s)
    /\ \E a \in Riders, o \in OrderIds, new_status \in RiderInputs :
         LET r == [IdleOrd EXCEPT !.op = "update_status", !.actor = a, !.order = o]
             db_status == IF new_status \in DOMAIN ui_to_db THEN ui_to_db[new_status]
                          ELSE new_status
         IN  OStep(s,
                   IF db_status \notin allowed_db_statuses
                   THEN ODone(r, 400, "invalid_status")
                   ELSE IF o > Len(orders) THEN ODone(r, 404, "not_found")
                   ELSE IF orders[o].rider_id # a THEN ODone(r, 403, "not_assigned")
                   ELSE [r EXCEPT !.pc = "rs_update", !.target = db_status])
    /\ UNCHANGED <<orders, points, wvars, xvars>>

\* ... and its update where id = .. and rider_id = ..
RiderStatusUpdate(s) ==
    /\ oq[s].pc = "rs_update"
    /\ LET r == oq[s] IN
       IF orders[r.order].rider_id = r.actor
       THEN /\ orders' = [orders EXCEPT ![r.order].status = r.target]
            /\ OStep(s, ODone(r, 200, ""))
       ELSE /\ OStep(s, ODone(r, 404, "not_found"))
            /\ UNCHANGED orders
    /\ UNCHANGED <<points, wvars, xvars>>

\* rider accept_order up to its fetch of the order
AcceptFetch(s) ==
    /\ OCanStart(s)
    /\ \E a \in Riders, o \in OrderIds :
         LET r == [IdleOrd EXCEPT !.op = "accept_order", !.actor = a, !.order = o] IN
         OStep(s,
               IF o > Len(orders) THEN ODone(r, 404, "not_found")
               ELSE IF orders[o].rider_id # "" /\ orders[o].rider_id # a
               THEN ODone(r, 409, "already_assigned")
               ELSE [r EXCEPT !.pc = "ac_update",
                              !.target =
                                  IF orders[o].status \notin
                                        {"CONFIRMED", "PREPARING", "READY_FOR_PICKUP"}
                                  THEN "READY_FOR_PICKUP" ELSE ""])
    /\ UNCHANGED <<orders, points, wvars, xvars>>

\* ... and its update by id: the rider, and the status if one was chosen
AcceptUpdate(s) ==
    /\ oq[s].pc = "ac_update"
    /\ LET r == oq[s] IN
       /\ orders' = [orders EXCEPT ![r.order].rider_id = r.actor,
                                   ![r.order].status =
                                        IF r.target # "" THEN r.target ELSE @]
       /\ OStep(s, ODone(r, 200, ""))
    /\ UNCHANGED <<points, wvars, xvars>>

\* no wallet request runs; no webhook secret is configured
WalletIdle ==
    /\ wallets = <<>>
    /\ txs = <<>>
    /\ rq = [s \in Slots |-> IdleReq]
    /\ secrets = [maya |-> "", gcash |-> ""]
    /\ faults = 0
    /\ firstResp = [o \in {"top_up", "debit"} |-> [k \in Keys |-> NoResp]]
    /\ initial = [balance |-> 0, rows |-> 0]

OrdersInit ==
    /\ WalletIdle
    /\ resp = IdleOrd
    /\ OrderIdle

\* orders placed, cancelled, and moved by vendor, delivery staff and riders
OrdersNext ==
    \E s \in Slots :
        \/ CreateOrder(s, OrderTotals, {"cash"}, {{"CASH"}}) \/ CancelOrder(s)
        \/ VendorStatusFetch(s) \/ VendorStatusUpdate(s)
        \/ AssignFetch(s) \/ AssignUpdate(s)
        \/ StaffFetch(s) \/ StaffUpdate(s) \/ StaffPointsRead(s) \/ StaffPointsWrite(s)
        \/ RiderStatusFetch(s) \/ RiderStatusUpdate(s)
        \/ AcceptFetch(s) \/ AcceptUpdate(s)

SpecOrders == OrdersInit /\ [][OrdersNext]_vars

(* --------------------------- refund requests -------------------------- *)
\* student request_refund.  Issue categories arrive in upper case.
Issues == {"NOT_DELIVERED", "LATE", "WRONG_ITEMS", "MISSING_ITEMS", "QUALITY",
           "CANCELLED", "OTHER"}
\* claimed delays, around the thresholds
Delays == {10, 14, 15, 29, 30, 40, 59, 60}
\* str.strip().lower() of an item name; " Rice" is a spelling a student may
\* use for the item "rice"
norm(x) == IF x = " Rice" THEN "rice" ELSE x
\* lists of claimed item names
ItemClaims == {<<>>, <<" Rice">>, <<"adobo">>, <<"rice", "adobo">>, <<"soup">>}
Initiators == {"vendor", "customer", ""}

\* a refund request: an order request with the claim (issue, delay_mins,
\* items_claim) and the handler's locals
IdleRefund ==
    IdleOrd @@ [issue |-> "", delay_mins |-> 0, items_claim |-> <<>>,
                approved_amount |-> 0, refund_type |-> "", auto_approve |-> FALSE,
                wallet_id |-> 0, balance |-> 0, credited |-> FALSE,
                refund_status |-> ""]

is_delivered(st) == st \in {"DELIVERED", "COMPLETED", "RATING_PENDING"}

\* round(base_total * pct / 100, 2).  Totals are whole pesos and multiples of
\* ten, of which 30% and 50% are whole pesos, which the rounding to centavos
\* leaves as they are.
Percent(base_total, pct) == (base_total * pct) \div 100

\* the locals approved_amount, refund_type and auto_approve as initialized
NoRefund == [approved_amount |-> 0, refund_type |-> "partial", auto_approve |-> FALSE]
FullRefund(base_total) ==
    [approved_amount |-> base_total, refund_type |-> "full", auto_approve |-> TRUE]
PartialRefund(amount) ==
    [approved_amount |-> amount, refund_type |-> "partial", auto_approve |-> TRUE]

\* variant: a delay of exactly 30 minutes is not yet refunded in part
LateRefund_Over30(delay_mins, base_total) ==
    IF delay_mins >= 60 THEN FullRefund(base_total)
    ELSE IF delay_mins > 30 THEN PartialRefund(Percent(base_total, 30))
    ELSE IF delay_mins >= 15
    THEN [approved_amount |-> 0, refund_type |-> "voucher", auto_approve |-> FALSE]
    ELSE NoRefund

\* issue LATE
LateRefund(delay_mins, base_total) ==
    IF delay_mins >= 60 THEN FullRefund(base_total)
    ELSE IF delay_mins >= 30 THEN PartialRefund(Percent(base_total, 30))
    ELSE IF delay_mins >= 15
    THEN [approved_amount |-> 0, refund_type |-> "voucher", auto_approve |-> FALSE]
    ELSE NoRefund

\* issue WRONG_ITEMS / MISSING_ITEMS: price * quantity of the order's items
\* whose name is in names, or of all its items when names is empty
RECURSIVE ItemsAmount(_, _)
ItemsAmount(items, names) ==
    IF items = <<>> THEN 0
    ELSE LET it == Head(items)
             nm == norm(it.item_name)
             qty == IF it.quantity = 0 THEN 1 ELSE it.quantity
         IN  (IF nm # "" /\ (names = {} \/ nm \in names) THEN it.price * qty ELSE 0)
                 + ItemsAmount(Tail(items), names)

ItemsRefund(items, items_claim, base_total) ==
    LET names == {norm(items_claim[i]) : i \in 1..Len(items_claim)}
        amt == Min({ItemsAmount(items, names), base_total})
    IN  IF amt > 0 THEN PartialRefund(amt) ELSE NoRefund

\* the refund rules, by issue
RefundDecision(order, issue, delay_mins, items_claim, evidence, initiator) ==
    LET base_total == order.total
        db_status == order.status
    IN  CASE issue = "NOT_DELIVERED" ->
                IF ~is_delivered(db_status) THEN FullRefund(base_total) ELSE NoRefund
          [] issue = "LATE" -> LateRefund(delay_mins, base_total)
          [] issue \in {"WRONG_ITEMS", "MISSING_ITEMS"} ->
                ItemsRefund(order.items, items_claim, base_total)
          [] issue = "QUALITY" ->
                IF evidence THEN PartialRefund(Percent(base_total, 50)) ELSE NoRefund
          [] issue = "CANCELLED" ->
                IF initiator = "vendor" THEN FullRefund(base_total)
                ELSE IF initiator = "customer"
                        /\ db_status \in {"PENDING_CONFIRMATION", "CONFIRMED"}
                THEN FullRefund(base_total)
                ELSE NoRefund
          [] OTHER -> NoRefund

\* refund requests that will still insert a refunds row
Refunding == {s \in Slots : oq[s].op = "request_refund"}

\* a refund request is admitted to the rules only while the requests of the
\* behaviour insert at most `limit` rows
CanRequestRefund(limit) == Len(refunds) + Cardinality(Refunding) < limit

\* request_refund up to its fetch of the order (where id = .. and user_id =
\* ..), with the rules applied to the row it read; the issue is one of
\* `issues`
RequestRefundFetch(s, issues, limit) ==
    /\ OCanStart(s)
    /\ \E u \in Students, o \in OrderIds :
         LET r == [IdleRefund EXCEPT !.op = "request_refund", !.actor = u, !.order = o] IN
         IF o > Len(orders) \/ orders[o].user_id # u
         THEN OStep(s, ODone(r, 404, "not_found"))
         ELSE IF Lower(orders[o].payment_method) # "wallet"
         THEN OStep(s, ODone(r, 400, "not_wallet_paid"))
         ELSE /\ CanRequestRefund(limit)
              /\ \E issue \in issues :
                 \E delay_mins \in IF issue = "LATE" THEN Delays ELSE {0},
                    items_claim \in IF issue \in {"WRONG_ITEMS", "MISSING_ITEMS"}
                                    THEN ItemClaims ELSE {<<>>},
                    evidence \in IF issue = "QUALITY" THEN BOOLEAN ELSE {FALSE},
                    initiator \in IF issue = "CANCELLED" THEN Initiators ELSE {""} :
                   LET d == RefundDecision(orders[o], issue, delay_mins, items_claim,
                                           evidence, initiator)
                   IN  OStep(s, [r EXCEPT
                            !.issue = issue, !.delay_mins = delay_mins,
                            !.items_claim = items_claim,
                            !.approved_amount = d.approved_amount,
                            !.refund_type = d.refund_type,
                            !.auto_approve = d.auto_approve,
                            !.refund_status = "PENDING",
                            !.pc = IF d.auto_approve /\ d.approved_amount > 0
                                   THEN "rr_wallet" ELSE "rr_record"])
    /\ UNCHANGED <<orders, points, wvars, xvars>>

\* auto-approved: select a wallet of the student (limit 1, in no order)
RefundWalletSelect(s) ==
    /\ oq[s].pc = "rr_wallet"
    /\ LET r == oq[s] IN
       IF WalletsOf(r.actor) # {}
       THEN \E w \in WalletsOf(r.actor) :
              OStep(s, [r EXCEPT !.wallet_id = w, !.balance = wallets[w].balance,
                                 !.pc = "rr_tx"])
       ELSE OStep(s, [r EXCEPT !.pc = "rr_wallet_ins"])
    /\ UNCHANGED <<orders, points, wvars, xvars>>

\* ... none found: insert one with balance 0
RefundWalletInsert(s) ==
    /\ oq[s].pc = "rr_wallet_ins"
    /\ wallets' = Append(wallets, [user |-> oq[s].actor, balance |-> 0])
    /\ OStep(s, [oq[s] EXCEPT !.pc = "rr_wallet_sel2"])
    /\ UNCHANGED <<orders, points, txs, rq, secrets, faults, firstResp, initial, xvars>>

\* ... and select again; the balance is taken to be 0
RefundWalletReselect(s) ==
    /\ oq[s].pc = "rr_wallet_sel2"
    /\ \E w \in WalletsOf(oq[s].actor) :
         OStep(s, [oq[s] EXCEPT !.wallet_id = w, !.balance = 0, !.pc = "rr_tx"])
    /\ UNCHANGED <<orders, points, wvars, xvars>>

\* insert the credit transaction, completed
RefundTxInsert(s) ==
    /\ oq[s].pc = "rr_tx"
    /\ LET r == oq[s] IN
       /\ txs' = Append(txs,
              [id |-> UuidId(Len(txs) + 1), wallet_id |-> r.wallet_id, type |-> "credit",
               amount |-> r.approved_amount, status |-> "completed", user |-> r.actor])
       /\ OStep(s, [r EXCEPT !.pc = "rr_balance"])
    /\ UNCHANGED <<orders, points, wallets, rq, secrets, faults, firstResp, initial, xvars>>

\* balance = the balance read + approved_amount; when the UPDATE raises, the
\* handler logs it and goes on
RefundBalanceUpdate(s) ==
    /\ oq[s].pc = "rr_balance"
    /\ LET r == oq[s] IN
       \/ /\ wallets' = [wallets EXCEPT ![r.wallet_id].balance =
                                            CreditBalance(r.balance, r.approved_amount)]
          /\ OStep(s, [r EXCEPT !.credited = TRUE, !.refund_status = "APPROVED",
                                !.pc = "rr_record"])
          /\ UNCHANGED faults
       \/ /\ faults < MaxFaults
          /\ faults' = faults + 1
          /\ OStep(s, [r EXCEPT !.pc = "rr_record"])
          /\ UNCHANGED wallets
    /\ UNCHANGED <<orders, points, txs, rq, secrets, firstResp, initial, xvars>>

\* the row of the refunds table
refund_row(r) ==
    [order_id |-> r.order, user_id |-> r.actor, reason |-> r.issue,
     amount |-> r.approved_amount, refund_type |-> r.refund_type,
     status |-> r.refund_status]

\* insert the refunds row and answer
RefundRecordInsert(s) ==
    /\ oq[s].pc = "rr_record"
    /\ refunds' = Append(refunds, refund_row(oq[s]))
    /\ OStep(s, ODone(oq[s], 200, ""))
    /\ UNCHANGED <<orders, points, wvars, nvars, mvars>>

RequestRefund(s, issues, limit) ==
    \/ RequestRefundFetch(s, issues, limit)
    \/ RefundWalletSelect(s) \/ RefundWalletInsert(s) \/ RefundWalletReselect(s)
    \/ RefundTxInsert(s) \/ RefundBalanceUpdate(s) \/ RefundRecordInsert(s)

\* order totals and payment methods of the checkout, and the check
\* constraints orders.payment_method may carry
CheckoutTotals == {2 * TOPUP_MIN, 10 * TOPUP_MIN}
CheckoutMethods == {"wallet", "cash"}
PaymentMethodChecks == {{"WALLET", "CASH"}, {"E_WALLET", "CASH"}}

\* a student without a wallet row, or with the wallet one sandbox top-up has
\* funded; no request runs
CheckoutInit ==
    /\ \/ wallets = <<>> /\ txs = <<>> /\ initial = [balance |-> 0, rows |-> 0]
       \/ Funded(1) /\ txs = <<FundingRow(1)>>
    /\ rq = [s \in Slots |-> IdleReq]
    /\ resp = IdleOrd
    /\ secrets = [maya |-> "", gcash |-> ""]
    /\ faults = 0
    /\ firstResp = [o \in {"top_up", "debit"} |-> [k \in Keys |-> NoResp]]
    /\ OrderIdle

\* orders placed, moved by the vendor, and disputed by the student
CheckoutNext ==
    \E s \in Slots :
        \/ CreateOrder(s, CheckoutTotals, CheckoutMethods, PaymentMethodChecks)
        \/ VendorStatusFetch(s) \/ VendorStatusUpdate(s)
        \/ RequestRefund(s, Issues, MaxRefunds)

SpecCheckout == CheckoutInit /\ [][CheckoutNext]_vars

\* one wallet-paid order, disputed again and again
RepeatIssues == {"NOT_DELIVERED", "QUALITY"}

RefundRepeatNext ==
    \E s \in Slots :
        \/ CreateOrder(s, {2 * TOPUP_MIN}, {"wallet"}, {{"WALLET", "CASH"}})
        \/ RequestRefund(s, RepeatIssues, MaxRepeatRefunds)

SpecRefundRepeat == CheckoutInit /\ [][RefundRepeatNext]_vars

(* ------------------------- realtime notifier -------------------------- *)
\* realtime.py.  Query parameters of a connecting websocket and ids of an
\* event; "" stands for an absent one.  The ids are strings from the client:
\* a vendor's id may be given as a userId too.
VendorIds == {"", "v1"}
UserIds == {"", "u1", "v1"}
StaffUserIds == {"", "st1"}

\* registry.setdefault(key, set()).add(w), when the parameter is given
Register(registry, key, w) ==
    IF key = "" THEN registry
    ELSE [k \in DOMAIN registry \cup {key} |->
            IF k = key
            THEN (IF key \in DOMAIN registry THEN registry[key] ELSE {}) \cup {w}
            ELSE registry[k]]

\* registry.pop(key, None)
Pop(registry, key) == [k \in DOMAIN registry \ {key} |-> registry[k]]

\* registry[key].discard(w)
Discard(registry, key, w) ==
    IF key \in DOMAIN registry THEN [registry EXCEPT ![key] = @ \ {w}] ELSE registry

\* the finally block of orders_ws for one registry: discard the socket, and
\* pop the key when its set is left empty
Unregister(registry, key, w) ==
    IF key # "" /\ key \in DOMAIN registry
    THEN IF registry[key] \ {w} = {} THEN Pop(registry, key)
         ELSE Discard(registry, key, w)
    ELSE registry

\* orders_ws: accept, close a socket that names neither vendor nor user, and
\* register the others under every parameter they give
OrdersWsConnect(w) ==
    /\ socks[w].state = "new"
    /\ \E vendor_id \in VendorIds, user_id \in UserIds, staff_user_id \in StaffUserIds :
         IF vendor_id = "" /\ user_id = ""
         THEN /\ socks' = [socks EXCEPT ![w].state = "closed"]
              /\ UNCHANGED <<_vendor_connections, _student_connections,
                             _staff_connections>>
         ELSE /\ socks' = [socks EXCEPT ![w] =
                    [vendorId |-> vendor_id, userId |-> user_id,
                     staffUserId |-> staff_user_id, state |-> "open", got |-> 0]]
              /\ _vendor_connections' = Register(_vendor_connections, vendor_id, w)
              /\ _student_connections' = Register(_student_connections, user_id, w)
              /\ _staff_connections' = Register(_staff_connections, staff_user_id, w)
    /\ UNCHANGED <<bc, resp, refunds, mvars, ovars, wvars>>

\* the client leaves: from now on send_text raises
SocketGone(w) ==
    /\ socks[w].state = "open"
    /\ socks' = [socks EXCEPT ![w].state = "gone"]
    /\ UNCHANGED <<_vendor_connections, _student_connections, _staff_connections,
                   bc, resp, refunds, mvars, ovars, wvars>>

\* orders_ws, finally: the socket is taken out of the registries
OrdersWsCleanup(w) ==
    /\ socks[w].state = "gone"
    /\ socks' = [socks EXCEPT ![w].state = "closed"]
    /\ _vendor_connections' = Unregister(_vendor_connections, socks[w].vendorId, w)
    /\ _student_connections' = Unregister(_student_connections, socks[w].userId, w)
    /\ _staff_connections' = Unregister(_staff_connections, socks[w].staffUserId, w)
    /\ UNCHANGED <<bc, resp, refunds, mvars, ovars, wvars>>

\* the registry and the event's key of a phase of broadcast_order_event
PhaseRegistry(phase) ==
    CASE phase = "vendor" -> _vendor_connections
      [] phase = "student" -> _student_connections
      [] phase = "staff" -> _staff_connections
PhaseKey(b) ==
    CASE b.phase = "vendor" -> b.vendor_id
      [] b.phase = "student" -> b.user_id
      [] b.phase = "staff" -> b.staff_user_id
NextPhase(phase) ==
    CASE phase = "vendor" -> "student"
      [] phase = "student" -> "staff"
      [] phase = "staff" -> "idle"

\* broadcast_order_event is called: the payload is built; the sockets start
\* counting the payloads of this call
BroadcastStart ==
    /\ bc.phase = "idle"
    /\ \E vendor_id \in VendorIds, user_id \in UserIds, staff_user_id \in StaffUserIds :
         bc' = [phase |-> "vendor", vendor_id |-> vendor_id, user_id |-> user_id,
                staff_user_id |-> staff_user_id, pending |-> {}, listed |-> FALSE]
    /\ socks' = [w \in Sockets |-> [socks[w] EXCEPT !.got = 0]]
    /\ UNCHANGED <<_vendor_connections, _student_connections, _staff_connections,
                   resp, refunds, mvars, ovars, wvars>>

\* a phase begins: list(registry[key]) when the key is given and registered,
\* one _safe_send task per socket listed
BroadcastList ==
    /\ bc.phase \in {"vendor", "student", "staff"} /\ ~bc.listed
    /\ LET registry == PhaseRegistry(bc.phase)
           key == PhaseKey(bc)
       IN  bc' = [bc EXCEPT !.listed = TRUE,
                            !.pending = IF key # "" /\ key \in DOMAIN registry
                                        THEN registry[key] ELSE {}]
    /\ UNCHANGED <<_vendor_connections, _student_connections, _staff_connections,
                   socks, resp, refunds, mvars, ovars, wvars>>

\* _safe_send: the socket receives the payload, or send_text raises and the
\* socket is discarded from the pool, and when that leaves the pool empty the
\* key is popped from the vendor and the student registry
_safe_send(w) ==
    /\ bc.phase \in {"vendor", "student", "staff"} /\ bc.listed
    /\ w \in bc.pending
    /\ bc' = [bc EXCEPT !.pending = @ \ {w}]
    /\ LET key == PhaseKey(bc)
           pool == IF key \in DOMAIN PhaseRegistry(bc.phase)
                   THEN PhaseRegistry(bc.phase)[key] \ {w} ELSE {}
           emptied(registry) == IF pool = {} THEN Pop(registry, key) ELSE registry
       IN  IF socks[w].state = "open"
           THEN /\ socks' = [socks EXCEPT ![w].got = @ + 1]
                /\ UNCHANGED <<_vendor_connections, _student_connections,
                               _staff_connections>>
           ELSE /\ _vendor_connections' =
                        emptied(IF bc.phase = "vendor"
                                THEN Discard(_vendor_connections, key, w)
                                ELSE _vendor_connections)
                /\ _student_connections' =
                        emptied(IF bc.phase = "student"
                                THEN Discard(_student_connections, key, w)
                                ELSE _student_connections)
                /\ _staff_connections' =
                        IF bc.phase = "staff" THEN Discard(_staff_connections, key, w)
                        ELSE _staff_connections
                /\ UNCHANGED socks
    /\ UNCHANGED <<resp, refunds, mvars, ovars, wvars>>

\* asyncio.gather has returned: on to the next phase, or the call returns
BroadcastGathered ==
    /\ bc.phase \in {"vendor", "student", "staff"} /\ bc.listed /\ bc.pending = {}
    /\ bc' = IF NextPhase(bc.phase) = "idle" THEN IdleBroadcast
             ELSE [bc EXCEPT !.phase = NextPhase(bc.phase), !.listed = FALSE]
    /\ UNCHANGED <<_vendor_connections, _student_connections, _staff_connections,
                   socks, resp, refunds, mvars, ovars, wvars>>

broadcast_order_event ==
    \/ BroadcastStart \/ BroadcastList \/ BroadcastGathered
    \/ \E w \in Sockets : _safe_send(w)

orders_ws == \E w \in Sockets : OrdersWsConnect(w) \/ SocketGone(w) \/ OrdersWsCleanup(w)

\* no wallet or order request runs
RealtimeInit ==
    /\ WalletIdle
    /\ resp = IdleOrd
    /\ OrderIdle

\* websockets connect and leave while order events are broadcast
RealtimeNext == orders_ws \/ broadcast_order_event

SpecRealtime == RealtimeInit /\ [][RealtimeNext]_vars

(* --------------------------- menu promotion --------------------------- *)
\* vendor.py toggle_menu_promotion.  A request of the menu: IdleOrd and the
\* path and body parameters, and the vendor_id the handler read.
IdleToggle == IdleOrd @@ [item_id |-> 0, is_promoted |-> FALSE, vendor_id |-> ""]

\* toggle_menu_promotion calls in flight
Toggling == {s \in Slots : oq[s].op = "toggle_menu_promotion"}

\* select vendor_id where id = item_id; 404 when there is no such item
ToggleFetch(s) ==
    /\ OCanStart(s)
    /\ \E item_id \in 1..(Len(menu_items) + 1), is_promoted \in BOOLEAN :
         LET r == [IdleToggle EXCEPT !.op = "toggle_menu_promotion",
                                     !.item_id = item_id, !.is_promoted = is_promoted]
         IN  IF item_id > Len(menu_items)
             THEN OStep(s, ODone(r, 404, "not_found")) /\ UNCHANGED overlapped
             ELSE /\ OStep(s, [r EXCEPT !.vendor_id = menu_items[item_id].vendor_id,
                                        !.pc = IF is_promoted THEN "tp_unset"
                                               ELSE "tp_set"])
                  /\ overlapped' = (overlapped \/ Toggling # {})
    /\ UNCHANGED <<orders, points, wvars, refunds, nvars, menu_items, vouchers, today>>

\* variant: the unset touches no row
UnsetFilter_NoRow(vendor_id, i) == FALSE

\* rows the unset's filter selects: .eq("vendor_id", vendor_id)
UnsetFilter(vendor_id, i) == menu_items[i].vendor_id = vendor_id

\* promoting: update ... set is_promoted = false where vendor_id = ..
ToggleUnsetAll(s) ==
    /\ oq[s].pc = "tp_unset"
    /\ menu_items' = [i \in 1..Len(menu_items) |->
                        IF UnsetFilter(oq[s].vendor_id, i)
                        THEN [menu_items[i] EXCEPT !.is_promoted = FALSE]
                        ELSE menu_items[i]]
    /\ OStep(s, [oq[s] EXCEPT !.pc = "tp_set"])
    /\ UNCHANGED <<orders, points, wvars, refunds, nvars, overlapped, vouchers, today>>

\* update ... set is_promoted = .. where id = item_id
ToggleSetOne(s) ==
    /\ oq[s].pc = "tp_set"
    /\ menu_items' = [menu_items EXCEPT ![oq[s].item_id].is_promoted = oq[s].is_promoted]
    /\ OStep(s, ODone(oq[s], 200, ""))
    /\ UNCHANGED <<orders, points, wvars, refunds, nvars, overlapped, vouchers, today>>

PromotionInit ==
    /\ WalletIdle
    /\ resp = IdleOrd
    /\ OrderIdle

\* vendors promote and unpromote their items
PromotionNext ==
    \E s \in Slots : ToggleFetch(s) \/ ToggleUnsetAll(s) \/ ToggleSetOne(s)

SpecPromotion == PromotionInit /\ [][PromotionNext]_vars

(* ------------------------------ vouchers ------------------------------ *)
\* vouchers.py use_voucher.  expiry_date is the ISO date redeem_reward wrote,
\* or "" for none.
ExpiryDates == {""} \cup IsoDates
VoucherRows == [user_id : Students, expiry_date : ExpiryDates, used : {FALSE}]
VoucherTables == [1..NumVouchers -> VoucherRows]

IdleVoucher == IdleOrd @@ [voucher_id |-> 0]

\* variant: a voucher expires at the start of its expiry date
VoucherExpired_OnTheDay(v, day) ==
    v.expiry_date # "" /\ ~DateBefore(day, fromisoformat[v.expiry_date])

\* v.get("expiry_date") and date.fromisoformat(..) < date.today()
VoucherExpired(v, day) ==
    v.expiry_date # "" /\ DateBefore(fromisoformat[v.expiry_date], day)

\* select where id = .. and user_id = .. limit 1, and the checks on the row
UseVoucherFetch(s) ==
    /\ OCanStart(s)
    /\ \E user_id \in Students, voucher_id \in 1..(Len(vouchers) + 1) :
         LET r == [IdleVoucher EXCEPT !.op = "use_voucher", !.actor = user_id,
                                      !.voucher_id = voucher_id]
             rows == IF voucher_id <= Len(vouchers)
                        /\ vouchers[voucher_id].user_id = user_id
                     THEN <<vouchers[voucher_id]>> ELSE <<>>
         IN  OStep(s, IF rows = <<>> THEN ODone(r, 404, "not_found")
                      ELSE IF rows[1].used THEN ODone(r, 200, "")
                      ELSE IF VoucherExpired(rows[1], today) THEN ODone(r, 400, "expired")
                      ELSE [r EXCEPT !.pc = "uv_update"])
    /\ UNCHANGED <<orders, points, wvars, refunds, nvars, mvars>>

\* update ... set used = true where id = ..
UseVoucherUpdate(s) ==
    /\ oq[s].pc = "uv_update"
    /\ vouchers' = [vouchers EXCEPT ![oq[s].voucher_id].used = TRUE]
    /\ OStep(s, ODone(oq[s], 200, ""))
    /\ UNCHANGED <<orders, points, wvars, refunds, nvars, menu_items, overlapped, today>>

\* vouchers redeemed earlier, none used yet, on one of the days they name
VouchersInit ==
    /\ WalletIdle
    /\ resp = IdleOrd
    /\ orders = <<>> /\ oq = [s \in Slots |-> IdleOrd]
    /\ points = [u \in Students |-> 0]
    /\ refunds = <<>>
    /\ RealtimeIdle
    /\ menu_items = NoPromotion /\ overlapped = FALSE
    /\ vouchers \in VoucherTables
    /\ today \in {fromisoformat[d] : d \in IsoDates}

VouchersNext == \E s \in Slots : UseVoucherFetch(s) \/ UseVoucherUpdate(s)

SpecVouchers == VouchersInit /\ [][VouchersNext]_vars

(* -------------------------- status projection ------------------------- *)
\* vendor.py and realtime.py: stored status -> UI status
vendor_DB_TO_UI_STATUS ==
    [PENDING_CONFIRMATION |-> "pending", CONFIRMED |-> "pending",
     PAYMENT_PROCESSING |-> "pending", PREPARING |-> "preparing",
     READY_FOR_PICKUP |-> "ready", COMPLETED |-> "completed",
     RATING_PENDING |-> "completed", REJECTED |-> "cancelled"]

realtime_DB_TO_UI_STATUS ==
    [PENDING_CONFIRMATION |-> "pending", CONFIRMED |-> "pending",
     PAYMENT_PROCESSING |-> "pending", PREPARING |-> "preparing",
     READY_FOR_PICKUP |-> "ready", COMPLETED |-> "completed",
     RATING_PENDING |-> "completed", REJECTED |-> "cancelled",
     DELIVERED |-> "completed", ON_THE_WAY |-> "preparing",
     ARRIVING_SOON |-> "preparing"]

\* str.lower() on the stored statuses
StatusLower ==
    [PENDING_CONFIRMATION |-> "pending_confirmation", REJECTED |-> "rejected",
     CONFIRMED |-> "confirmed", PAYMENT_PROCESSING |-> "payment_processing",
     PREPARING |-> "preparing", READY_FOR_PICKUP |-> "ready_for_pickup",
     ON_THE_WAY |-> "on_the_way", ARRIVING_SOON |-> "arriving_soon",
     DELIVERED |-> "delivered", COMPLETED |-> "completed",
     RATING_PENDING |-> "rating_pending"]

\* vendor.py: DB_TO_UI_STATUS.get(db_status, db_status.lower())
vendor_ui_status(db_status) ==
    IF db_status \in DOMAIN vendor_DB_TO_UI_STATUS
    THEN vendor_DB_TO_UI_STATUS[db_status] ELSE StatusLower[db_status]

\* realtime.py: DB_TO_UI_STATUS.get(db_status)
realtime_ui_status(db_status) ==
    IF db_status \in DOMAIN realtime_DB_TO_UI_STATUS
    THEN realtime_DB_TO_UI_STATUS[db_status] ELSE "None"

\* an order seen in one stored status and then in another
IdleProjection ==
    IdleOrd @@ [db_status |-> "", db_status_after |-> "",
                vendor_ui |-> <<>>, realtime_ui |-> <<>>]

\* both statuses are projected for the vendor's list and for the broadcast
ProjectStatuses ==
    /\ resp.op = "project" /\ resp.pc = "idle"
    /\ resp' = [resp EXCEPT
          !.pc = "done",
          !.vendor_ui = <<vendor_ui_status(resp.db_status),
                          vendor_ui_status(resp.db_status_after)>>,
          !.realtime_ui = <<realtime_ui_status(resp.db_status),
                            realtime_ui_status(resp.db_status_after)>>]
    /\ UNCHANGED <<oq, orders, points, wvars, xvars>>

ProjectionInit ==
    /\ WalletIdle
    /\ OrderIdle
    /\ \E a \in ORDER_STATUS, b \in ORDER_STATUS :
         resp = [IdleProjection EXCEPT !.op = "project", !.db_status = a,
                                       !.db_status_after = b]

ProjectionNext == ProjectStatuses

SpecProjection == ProjectionInit /\ [][ProjectionNext]_vars

(* ------------------------- properties: wallet ------------------------- *)
\* the pending top-up of SpecConfirmRace: the last row of the initial table
RaceTx == initial.rows + 1

\* requests that have flipped a transaction and not yet answered
Crediting == {s \in Slots : rq[s].flipped}

\* C2: of the confirm calls and paid webhooks that run concurrently for one
\* pending credit, at most one flips the transaction; while it has not yet
\* written, the balance is the initial balance; once it has, the balance is
\* the initial balance plus the amount, and no later call adds to it.
C2_ExactlyOneCredit ==
    LET tx == txs[RaceTx] IN
    /\ Cardinality(Crediting) <= 1
    /\ tx.status \in {"pending", "completed"}
    /\ tx.status = "pending" =>
          Crediting = {} /\ wallets[1].balance = initial.balance
    /\ tx.status = "completed" =>
          wallets[1].balance =
              IF Crediting # {} THEN initial.balance
              ELSE initial.balance + tx.amount

\* a confirm call that saw the transaction pending and then lost the flip, at
\* the moment the winner has credited the wallet
C2_Witness ==
    /\ resp.pc = "done" /\ resp.wrote /\ resp.tid = txs[RaceTx].id
    /\ \E s \in Slots : /\ rq[s].op = "confirm" /\ rq[s].pc = "cp_noop"
                        /\ rq[s].tid = resp.tid
    /\ wallets[1].balance = initial.balance + txs[RaceTx].amount

\* C3: a transaction's status changes only from pending, and only to
\* completed or failed (so at most once, and never back to pending); a confirm
\* call that did not flip the transaction leaves every balance as it was.
C3_StatusChangesOnce ==
    [][/\ \A i \in 1..Len(txs) :
             txs'[i].status # txs[i].status =>
                 txs[i].status = "pending" /\ txs'[i].status \in {"completed", "failed"}
       /\ (resp'.op = "confirm" /\ resp'.pc = "done" /\ ~resp'.flipped) =>
             wallets' = wallets]_vars

\* C4: a top_up or debit_wallet call that repeats an idempotency key (and
\* amount) already answered with success gets the first answer's transaction
\* id and amount, inserts no transaction and writes no balance.
C4_ReplaySameResponse ==
    (resp.pc = "done" /\ resp.replay) =>
        /\ resp.code = 200
        /\ resp.rtx = firstResp[resp.op][resp.key].id
        /\ resp.ramt = firstResp[resp.op][resp.key].amount
        /\ ~resp.inserted
        /\ ~resp.wrote

\* the balance of a user's wallet as the table holds it; no wallet: nothing
StoredBalance(u) ==
    IF WalletsOf(u) = {} THEN 0 ELSE wallets[Min(WalletsOf(u))].balance

C6_BalanceArithmetic ==
    [][(resp'.pc = "done" /\ resp'.wrote) =>
          wallets'[resp'.wid].balance =
              wallets[resp'.wid].balance +
                  (IF resp'.op = "debit" THEN 0 - resp'.amount ELSE resp'.amount)]_vars

\* a signature the provider made over this body with the configured secret
Genuine(provider, sig) ==
    /\ secrets[provider] # ""
    /\ sig.present
    /\ sig.value \in {HmacHex(secrets[provider], "body"),
                      <<"sha256=">> \o HmacHex(secrets[provider], "body")}

\* C7: a webhook call whose signature is absent, not the provider's, or
\* uncheckable because no secret is configured is answered 401 by the step
\* that receives it, which changes no transaction and no wallet; no such call
\* ever reaches the lookup.
C7_BadSignatureRejected ==
    [][/\ (resp'.op = "webhook" /\ ~Genuine(resp'.provider, resp'.sig)) =>
             resp'.code = 401 /\ txs' = txs /\ wallets' = wallets
       /\ \A s \in Slots :
             rq'[s].op = "webhook" => Genuine(rq'[s].provider, rq'[s].sig)]_vars

\* a webhook signed under the empty key arrives at a process with no secret
\* for that provider, while a transaction is pending, and is answered 401
C7_Witness ==
    /\ resp.op = "webhook" /\ resp.code = 401
    /\ secrets[resp.provider] = "" /\ resp.sig = Sig(FALSE, "", "body")
    /\ \E i \in 1..Len(txs) : txs[i].status = "pending"

\* a step of a top_up call
TopUpStepped ==
    \/ resp'.op = "top_up"
    \/ \E s \in Slots : rq'[s].op = "top_up" /\ rq'[s] # rq[s]

\* the row an accepted top-up of request r appends
PendingRow(r) ==
    [id |-> r.rtx, wallet_id |-> r.wid, type |-> "credit", amount |-> r.amount,
     status |-> "pending", user |-> r.user]

\* C8 as stated: top_up answers 200 only for amounts in [TOPUP_MIN, TOPUP_MAX];
\* the answering step of an accepted call appends exactly one pending
\* transaction, that of a rejected call none; no step of a top_up call changes
\* a balance.
C8_AcceptedCreatesOne ==
    [][/\ (resp'.op = "top_up" /\ resp'.pc = "done") =>
             IF resp'.code = 200
             THEN /\ resp'.amount >= TOPUP_MIN /\ resp'.amount <= TOPUP_MAX
                  /\ txs' = Append(txs, PendingRow(resp'))
             ELSE txs' = txs /\ ~resp'.inserted
       /\ TopUpStepped =>
             \A w \in 1..Len(wallets) : wallets'[w] = wallets[w]]_vars

\* C8 amended: as stated, except that an accepted call appends no transaction
\* when one whose id is the call's idempotency key is already in the table.
C8_AcceptedCreatesAtMostOne ==
    [][/\ (resp'.op = "top_up" /\ resp'.pc = "done") =>
             IF resp'.code = 200
             THEN /\ resp'.amount >= TOPUP_MIN /\ resp'.amount <= TOPUP_MAX
                  /\ IF resp'.key # 0 /\ TxById(KeyId(resp'.key)) # {}
                     THEN txs' = txs
                     ELSE txs' = Append(txs, PendingRow(resp'))
             ELSE txs' = txs /\ ~resp'.inserted
       /\ TopUpStepped =>
             \A w \in 1..Len(wallets) : wallets'[w] = wallets[w]]_vars

\* a top-up of the largest amount is accepted on a wallet that holds money
C8_Witness ==
    /\ resp.op = "top_up" /\ resp.code = 200 /\ resp.inserted
    /\ resp.amount = TOPUP_MAX
    /\ wallets[resp.wid].balance > 0
    /\ txs[Len(txs)] = PendingRow(resp)

(* ------------------------- properties: orders ------------------------- *)
\* spec 4.1: the lifecycle, in order
Lifecycle ==
    <<"PENDING_CONFIRMATION", "CONFIRMED", "PAYMENT_PROCESSING", "PREPARING",
      "READY_FOR_PICKUP", "ON_THE_WAY", "ARRIVING_SOON", "DELIVERED", "COMPLETED",
      "RATING_PENDING">>

InLifecycle(st) == \E i \in 1..Len(Lifecycle) : Lifecycle[i] = st

Rank(st) == CHOOSE i \in 1..Len(Lifecycle) : Lifecycle[i] = st

\* a legal forward transition: to the next status of the lifecycle
Forward(cur, next) ==
    InLifecycle(cur) /\ InLifecycle(next) /\ Rank(next) = Rank(cur) + 1

\* statuses an order may be cancelled or rejected from
RejectFrom == {"PENDING_CONFIRMATION", "CONFIRMED", "PREPARING", "READY_FOR_PICKUP"}

\* the role an operation is called by
Role(op) ==
    CASE op = "cancel_order" -> "student"
      [] op = "update_order_status" -> "vendor"
      [] op = "update_delivery_status" -> "staff"
      [] op \in {"update_status", "accept_order"} -> "rider"
      [] OTHER -> "none"

\* spec 4.1, authority rules, read in the roles' favour: the student cancels a
\* pending order; the vendor makes any legal forward transition, up to
\* READY_FOR_PICKUP when the order is for delivery, and rejects; staff and
\* riders make the legal forward transitions from READY_FOR_PICKUP to
\* DELIVERED, and ON_THE_WAY -> DELIVERED.
Authorized(role, cur, next, delivery) ==
    CASE role = "student" -> cur = "PENDING_CONFIRMATION" /\ next = "REJECTED"
      [] role = "vendor" ->
            \/ Forward(cur, next) /\ (delivery => Rank(next) <= Rank("READY_FOR_PICKUP"))
            \/ cur \in RejectFrom /\ next = "REJECTED"
      [] role \in {"staff", "rider"} ->
            \/ Forward(cur, next) /\ cur \in {"READY_FOR_PICKUP", "ON_THE_WAY", "ARRIVING_SOON"}
            \/ cur = "ON_THE_WAY" /\ next = "DELIVERED"
      [] OTHER -> FALSE

\* the order request that took the step
Acting ==
    IF resp'.pc = "done" THEN resp'
    ELSE oq'[CHOOSE s \in Slots : oq'[s] # oq[s]]

\* the order request that arrived with the step, if one did
Arrived ==
    IF \A s \in Slots : oq'[s] = oq[s] THEN resp'
    ELSE LET s == CHOOSE t \in Slots : oq'[t] # oq[t]
         IN  IF oq[s].pc = "idle" THEN oq'[s] ELSE IdleOrd

\* an order is for delivery when a staff member or a rider is assigned
IsDelivery(row) == row.assigned_staff_id # "" \/ row.rider_id # ""

\* C1: a step changes an order's status only by a transition the table
\* authorizes for the role of the request that takes it; a request for a
\* change of status the table does not authorize is refused and leaves the
\* status as it was.  (The claim asks for 403; update_delivery_status answers
\* 400 where it refuses, which this statement lets pass.)
C1_OnlyAuthorizedTransitions ==
    [][\A i \in 1..Len(orders) :
          LET cur == orders[i].status
              next == orders'[i].status
          IN  /\ next # cur =>
                    Authorized(Role(Acting.op), cur, next, IsDelivery(orders[i]))
              /\ (/\ resp'.pc = "done" /\ resp'.order = i
                  /\ Role(resp'.op) # "none" /\ resp'.target \notin {"", cur}
                  /\ ~Authorized(Role(resp'.op), cur, resp'.target, IsDelivery(orders[i])))
                    => resp'.code \in {400, 403, 404, 409} /\ next = cur]_vars

\* statuses past READY_FOR_PICKUP
PastReady == {"ON_THE_WAY", "ARRIVING_SOON", "DELIVERED", "COMPLETED", "RATING_PENDING"}

C10_TerminalStatusKept ==
    [][\A i \in 1..Len(orders) :
          orders[i].status \in {"DELIVERED", "COMPLETED", "REJECTED"} =>
              orders'[i].status = orders[i].status]_vars

\* C11: no step moves an order from one status of the lifecycle to an earlier
\* one: a status change between two lifecycle statuses goes to a later one.
C11_NeverBackward ==
    [][\A i \in 1..Len(orders) :
          LET cur == orders[i].status
              next == orders'[i].status
          IN  (next # cur /\ InLifecycle(cur) /\ InLifecycle(next))
                  => Rank(next) > Rank(cur)]_vars

\* C12: a cancel_order for an order of the calling student that is in
\* PENDING_CONFIRMATION succeeds and leaves it REJECTED; any other cancel_order
\* fails and changes no order.
C12_CancelOnlyPending ==
    [][(resp'.pc = "done" /\ resp'.op = "cancel_order") =>
          LET o == resp'.order IN
          IF /\ o \in 1..Len(orders)
             /\ orders[o].user_id = resp'.actor
             /\ orders[o].status = "PENDING_CONFIRMATION"
          THEN resp'.code = 200 /\ orders'[o].status = "REJECTED"
          ELSE resp'.code # 200 /\ orders' = orders]_vars

\* C13: every stored order status is one of the eleven statuses of the
\* enumeration.
C13_StatusInEnumeration ==
    \A i \in 1..Len(orders) :
        orders[i].status \in
            {"PENDING_CONFIRMATION", "CONFIRMED", "PAYMENT_PROCESSING", "PREPARING",
             "READY_FOR_PICKUP", "ON_THE_WAY", "ARRIVING_SOON", "DELIVERED",
             "COMPLETED", "RATING_PENDING", "REJECTED"}

\* C15: the step in which a staff update_delivery_status or a rider
\* update_status that set DELIVERED answers 200 leaves the owning student's
\* points raised by floor(total / 100) over the points before that step, the
\* step being the last of the request and the one that writes the points.
C15_DeliveredAwardsPoints ==
    [][(/\ resp'.pc = "done" /\ resp'.code = 200
        /\ resp'.op \in {"update_delivery_status", "update_status"}
        /\ resp'.target = "DELIVERED") =>
          LET order == orders'[resp'.order] IN
          points'[order.user_id] = points[order.user_id] + (order.total \div 100)]_vars

\* C16: the update of a staff update_delivery_status is applied only while the
\* stored status is one the request's target may follow, as the status the
\* request read and validated against was; for the target DELIVERED that is
\* the one status ON_THE_WAY.
C16_WriteOnlyIfStatusUnchanged ==
    [][\A s \in Slots :
          (oq[s].pc = "sd_update" /\ oq'[s] # oq[s]) =>
              LET cur == orders[oq[s].order].status IN
              /\ cur \in DOMAIN VALID_STATUS_TRANSITIONS
              /\ oq[s].target \in VALID_STATUS_TRANSITIONS[cur]]_vars

(* ------------------------ properties: checkout ------------------------ *)
\* C14: a create_order that succeeds with payment by wallet, for a total the
\* student's wallet balance covers, leaves the balance reduced by the total and
\* the new order in PENDING_CONFIRMATION.
C14_WalletOrderDebitsWallet ==
    [][(/\ resp'.pc = "done" /\ resp'.op = "create_order" /\ resp'.code = 200
        /\ Len(orders') = Len(orders) + 1
        /\ \E i \in 1..Len(wallet_candidates) :
              orders'[Len(orders')].payment_method = wallet_candidates[i]
        /\ WalletsOf(resp'.actor) # {}
        /\ StoredBalance(resp'.actor) >= orders'[Len(orders')].total) =>
          /\ orders'[Len(orders')].status = "PENDING_CONFIRMATION"
          /\ wallets' = [wallets EXCEPT ![Min(WalletsOf(resp'.actor))].balance =
                                            @ - orders'[Len(orders')].total]]_vars

\* the request_refund answered by the step just taken
Refunded == resp.pc = "done" /\ resp.op = "request_refund" /\ resp.code = 200

\* C17: a LATE refund request on an order of total T with claimed delay d is
\* answered, and recorded in the refunds table, with: d >= 60: amount T, type
\* full, auto-approved; 30 <= d <= 59: amount 30% of T, type partial,
\* auto-approved; 15 <= d <= 29: amount 0, type voucher, not auto-approved;
\* d < 15: amount 0, not auto-approved.
C17_LateRefundRule ==
    (Refunded /\ resp.issue = "LATE") =>
        LET T == orders[resp.order].total
            d == resp.delay_mins
            row == refunds[Len(refunds)]
        IN  /\ row.amount = resp.approved_amount
            /\ row.refund_type = resp.refund_type
            /\ d >= 60 => /\ resp.approved_amount = T /\ resp.refund_type = "full"
                          /\ resp.auto_approve
            /\ (30 <= d /\ d <= 59) =>
                    /\ 10 * resp.approved_amount = 3 * T
                    /\ resp.refund_type = "partial" /\ resp.auto_approve
            /\ (15 <= d /\ d <= 29) =>
                    /\ resp.approved_amount = 0 /\ resp.refund_type = "voucher"
                    /\ ~resp.auto_approve
            /\ d < 15 => resp.approved_amount = 0 /\ ~resp.auto_approve

\* a delay of 30 minutes on an order of 500 has been refunded 150, in part,
\* and the wallet credited
C17_Witness ==
    /\ Refunded /\ resp.issue = "LATE" /\ resp.delay_mins = 30
    /\ orders[resp.order].total = 10 * TOPUP_MIN
    /\ resp.approved_amount = 3 * TOPUP_MIN /\ resp.refund_type = "partial"
    /\ resp.credited

\* price x quantity summed over the items whose name, trimmed and in lower
\* case, is among names
RECURSIVE ClaimedSum(_, _)
ClaimedSum(items, names) ==
    IF items = <<>> THEN 0
    ELSE (IF norm(Head(items).item_name) \in names
          THEN Head(items).price * Head(items).quantity ELSE 0)
            + ClaimedSum(Tail(items), names)

\* C18: a WRONG_ITEMS or MISSING_ITEMS refund request is answered with the sum
\* of price x quantity over the order's items whose name is among the claimed
\* names, capped at the order total, and is auto-approved iff that amount is
\* above 0.
C18_ClaimedItemsOnly ==
    (Refunded /\ resp.issue \in {"WRONG_ITEMS", "MISSING_ITEMS"}) =>
        LET order == orders[resp.order]
            names == {norm(resp.items_claim[i]) : i \in 1..Len(resp.items_claim)}
            amount == Min({ClaimedSum(order.items, names), order.total})
        IN  /\ resp.approved_amount = amount
            /\ resp.auto_approve <=> amount > 0

\* C19: every request_refund for an existing order of the caller appends a
\* row to the refunds table; when the order was not paid by wallet, no wallet
\* and no transaction is written.
C19_EveryRefundRequestRecorded ==
    [][(/\ resp'.pc = "done" /\ resp'.op = "request_refund"
        /\ resp'.order \in 1..Len(orders)
        /\ orders[resp'.order].user_id = resp'.actor) =>
          /\ Len(refunds') = Len(refunds) + 1
          /\ refunds'[Len(refunds')].order_id = resp'.order
          /\ Lower(orders[resp'.order].payment_method) # "wallet" =>
                wallets' = wallets /\ txs' = txs]_vars

(* ------------------------ properties: realtime ------------------------ *)
\* C20: no websocket receives the payload of one broadcast_order_event call
\* more than once.
C20_AtMostOncePerBroadcast ==
    \A w \in Sockets : socks[w].got <= 1

(* ------------------- properties: rewards and staff ------------------- *)
\* the points the first n orders can earn their student u, once each
RECURSIVE EarnablePoints(_, _)
EarnablePoints(u, n) ==
    IF n = 0 THEN 0
    ELSE EarnablePoints(u, n - 1)
         + (IF orders[n].user_id = u THEN orders[n].total \div 100 ELSE 0)

\* C27: in every state the points credited to a student are at most the sum,
\* over the student's orders, of floor(total / 100): no order earns its
\* reward more than once.
C27_PointsAtMostOncePerOrder ==
    \A u \in Students : points[u] <= EarnablePoints(u, Len(orders))

\* C28: the update of a staff update_delivery_status is applied only to an
\* order of the staff member's vendor that is assigned to that staff member or
\* to nobody; an order it finds unassigned on pick-up becomes assigned to them.
C28_StaffOnlyOwnOrUnassigned ==
    [][\A s \in Slots :
          (/\ oq[s].op = "update_delivery_status" /\ oq[s].pc = "sd_update"
           /\ oq'[s] # oq[s]) =>
              LET order == orders[oq[s].order] IN
              /\ order.restaurant_id = StaffVendor[oq[s].actor]
              /\ order.assigned_staff_id \in {"", oq[s].actor}]_vars

(* ---------------------- properties: webhook amount ---------------------- *)
\* a paid webhook past its lookup whose payload carries an amount that is not
\* the amount of the transaction it found
Mismatched(r) ==
    /\ r.op = "webhook" /\ r.wstatus \in paid_statuses /\ r.tid # NoId
    /\ r.evamt # 0 /\ r.evamt # r.amount

\* C29: a paid webhook whose payload amount differs from the stored amount of
\* its transaction goes no further than the lookup: it never enters
\* _complete_pending_credit, and it is answered 400.
C29_AmountMismatchRejected ==
    /\ \A s \in Slots : ~Mismatched(rq[s])
    /\ Mismatched(resp) => resp.code = 400

(* ------------------------- properties: ledger ------------------------- *)
\* C24: in every state a user has at most one wallet row.
C24_OneWalletPerUser ==
    \A u \in Users : Cardinality(WalletsOf(u)) <= 1

\* what the first n transactions say wallet w holds: its completed credits
\* less its completed debits
RECURSIVE LedgerSum(_, _)
LedgerSum(w, n) ==
    IF n = 0 THEN 0
    ELSE LedgerSum(w, n - 1)
         + (IF txs[n].wallet_id = w /\ txs[n].status = "completed"
            THEN (IF txs[n].type = "credit" THEN txs[n].amount ELSE 0 - txs[n].amount)
            ELSE 0)

\* C25: whenever no request is in flight, every wallet's balance is the sum of
\* its completed credits less the sum of its completed debits.
C25_LedgerConsistent ==
    (\A s \in Slots : rq[s].pc = "idle" /\ oq[s].pc = "idle") =>
        \A w \in 1..Len(wallets) : wallets[w].balance = LedgerSum(w, Len(txs))

(* ---------------------- properties: refund totals ---------------------- *)
\* what the first n rows of the refunds table credited for order o
RECURSIVE CreditedFor(_, _)
CreditedFor(o, n) ==
    IF n = 0 THEN 0
    ELSE CreditedFor(o, n - 1)
         + (IF refunds[n].order_id = o /\ refunds[n].status = "APPROVED"
            THEN refunds[n].amount ELSE 0)

\* C26: for every order, the refunds credited to the student's wallet for it
\* add up to at most the order's total.
C26_RefundsWithinOrderTotal ==
    \A o \in 1..Len(orders) : CreditedFor(o, Len(refunds)) <= orders[o].total

(* ----------------------- properties: registries ----------------------- *)
\* socket w is in the set the registry holds under key, if a key is given
Registered(registry, key, w) ==
    key # "" => (key \in DOMAIN registry /\ w \in registry[key])

\* every open socket is registered under each parameter it connected with
OpenSocketsRegistered ==
    \A w \in Sockets :
        socks[w].state = "open" =>
            /\ Registered(_vendor_connections, socks[w].vendorId, w)
            /\ Registered(_student_connections, socks[w].userId, w)
            /\ Registered(_staff_connections, socks[w].staffUserId, w)

\* no key of the registry is mapped to the empty set
NoEmptyPool(registry) == \A k \in DOMAIN registry : registry[k] # {}

\* C30: in every state each open socket is still in the vendor, student and
\* staff registry under the keys it registered with, and no key of a registry
\* is mapped to an empty set.
C30_OnlyFailedSocketRemoved ==
    /\ OpenSocketsRegistered
    /\ NoEmptyPool(_vendor_connections)
    /\ NoEmptyPool(_student_connections)
    /\ NoEmptyPool(_staff_connections)

(* ------------------------ properties: promotion ------------------------ *)
\* items of vendor v that are promoted
Promoted(v) ==
    {i \in 1..Len(menu_items) : menu_items[i].vendor_id = v /\ menu_items[i].is_promoted}

\* C21: as long as the toggle_menu_promotion calls have run one after another,
\* every vendor has at most one promoted item.  (Two calls that ran at once
\* can leave two: C21_Witness.)
C21_OnePromotedWhenSequential ==
    ~overlapped => \A v \in Vendors : Cardinality(Promoted(v)) <= 1

\* two promote calls of one vendor have interleaved and returned, and two of
\* the vendor's items are promoted
C21_Witness ==
    /\ overlapped /\ Toggling = {}
    /\ \E v \in Vendors : Cardinality(Promoted(v)) = 2

(* ------------------------ properties: vouchers ------------------------- *)
\* the voucher's expiry date is a day before today
PastExpiry(v) ==
    v.expiry_date # "" /\ DateBefore(fromisoformat[v.expiry_date], today)

\* C22: no step sets a voucher's used flag back to false; the flag is set only
\* by the update of a use_voucher of the voucher's owner, on a voucher that
\* has not expired.  A use_voucher for a voucher that is not the caller's is
\* answered 404, for a used one 200, for an unused expired one 400, each
\* leaving the table as it was; for an unused, unexpired voucher of the caller
\* it goes on to its update, which sets used = true and answers 200.
C22_UsedFlipsOnce ==
    [][/\ Len(vouchers') = Len(vouchers)
       /\ \A i \in 1..Len(vouchers) :
            /\ vouchers[i].used => vouchers'[i].used
            /\ (vouchers'[i].used /\ ~vouchers[i].used) =>
                  /\ ~PastExpiry(vouchers[i])
                  /\ \E s \in Slots : /\ oq[s].pc = "uv_update"
                                      /\ oq[s].voucher_id = i
                                      /\ oq[s].actor = vouchers[i].user_id
       /\ LET a == Arrived IN
          a.op = "use_voucher" =>
             LET own == /\ a.voucher_id \in 1..Len(vouchers)
                        /\ vouchers[a.voucher_id].user_id = a.actor
                 v == vouchers[a.voucher_id]
                 refused(code) == a.pc = "done" /\ a.code = code /\ vouchers' = vouchers
             IN  IF ~own THEN refused(404)
                 ELSE IF v.used THEN refused(200)
                 ELSE IF PastExpiry(v) THEN refused(400)
                 ELSE a.pc = "uv_update"
       /\ \A s \in Slots :
            (oq[s].pc = "uv_update" /\ oq'[s] # oq[s]) =>
                /\ vouchers'[oq[s].voucher_id].used
                /\ resp'.pc = "done" /\ resp'.code = 200]_vars

\* a use_voucher has set the flag of a voucher that expires today, while the
\* other voucher, expired, is still unused
C22_Witness ==
    /\ resp.pc = "done" /\ resp.op = "use_voucher" /\ resp.code = 200
    /\ vouchers[resp.voucher_id].used
    /\ vouchers[resp.voucher_id].expiry_date # ""
    /\ fromisoformat[vouchers[resp.voucher_id].expiry_date] = today
    /\ \E i \in 1..Len(vouchers) : PastExpiry(vouchers[i]) /\ ~vouchers[i].used

(* ------------------------ properties: projection ----------------------- *)
\* spec 4.1: the UI statuses, in order
UiOrder == <<"pending", "preparing", "ready", "in_progress", "completed">>

\* UI status x comes before UI status y
UiBefore(x, y) ==
    \E i, j \in 1..Len(UiOrder) : UiOrder[i] = x /\ UiOrder[j] = y /\ i < j

\* C23: every stored status is a key of the table of vendor.py and of the
\* table of realtime.py; the two tables project it to the same UI status; and
\* of two statuses of the lifecycle, the later one is not projected to a UI
\* status that comes before the projection of the earlier one.
C23_ProjectionTotalMonotonic ==
    (resp.op = "project" /\ resp.pc = "done") =>
        LET a == resp.db_status
            b == resp.db_status_after
        IN  /\ a \in DOMAIN vendor_DB_TO_UI_STATUS
            /\ a \in DOMAIN realtime_DB_TO_UI_STATUS
            /\ resp.vendor_ui[1] = resp.realtime_ui[1]
            /\ (InLifecycle(a) /\ InLifecycle(b) /\ Rank(a) <= Rank(b)) =>
                  /\ ~UiBefore(resp.vendor_ui[2], resp.vendor_ui[1])
                  /\ ~UiBefore(resp.realtime_ui[2], resp.realtime_ui[1])

=============================================================================
